---- MODULE Spec2Model ----
(***************************************************************************)
(* Item-requirement core of arc-loot-helper: the three catalog extractors, *)
(* the total aggregator, the completed and remaining calculators           *)
(* (utils/itemRequirements.ts), the composite key codec                    *)
(* (utils/progressKeys.ts), the progress store (stores/progressStore.ts)   *)
(* and the derived remaining-requirements store.                           *)
(*                                                                         *)
(* A requirement map (ItemRequirements) is a plain object: a function from *)
(* a finite set of own keys to numbers (or to the strings that + builds    *)
(* when an operand is no number), read through Object.prototype; the empty *)
(* map is << >>.  An optional field of a record that is absent is a field  *)
(* the record does not have.                                               *)
(***************************************************************************)
EXTENDS Integers, Sequences, FiniteSets, TLC

VARIABLES
    gameData,      \* the catalog handed to the core, or Null while it is not loaded
    progress,      \* the GameProgress snapshot (state of the progress store)
    reqTotal,      \* argument `total` of a direct calculateRemainingRequirements call
    reqCompleted,  \* argument `completed` of that call
    total,         \* local `total` of the last calculate / calculateItemRequirements
    completed,     \* local `completed` of the last calculate / calculateCompletedRequirements
    remaining,     \* useRemainingRequirementsStore.remaining: Null or a map
    op,            \* the operation applied last ("init" before any)
    ret,           \* what the last directly called function returned (or that it threw)
    previous,      \* the cached value the last set({ remaining }) replaced
    lastDeps,      \* [data, progress] the sync effect last ran with, Null before it ran, Unmounted after it threw
    pc,            \* position of a calculate call in progress, "idle" when none is
    building,      \* local `remaining` under construction in calculateRemainingRequirements
    todo,          \* keys of `total` the loop of calculateRemainingRequirements has not visited
    localStorage,  \* the item 'arc-loot-helper-progress' of localStorage as parsed JSON, Null when absent
    progressRef,   \* which object the store's progress is: 0 is initialState, another number an object built later
    kept,          \* the effect a render handed to React that has not run yet (its data, progress, deps), Null when none
    loader,        \* the mounted data-loading hook: its state, its effect's locals, its fetches
    request        \* a fetchWithRetry call of the data-fetch script: its attempts and outcome

vars == <<gameData, progress, reqTotal, reqCompleted, total, completed, remaining, op, ret,
          previous, lastDeps, pc, building, todo, localStorage, progressRef, kept,
          loader, request>>

\* What belongs to a calculate call in progress and to the sync effect.
callVars == <<pc, building, todo>>

----------------------------------------------------------------------------
(* Values *)

\* JavaScript null / undefined for a whole value (never an item id).
Null == [null |-> TRUE]

\* The empty object {} used as a requirement map or a progress collection.
EmptyMap == << >>

\* A function's outcome: a returned value, or a thrown TypeError.
Ok(v) == [threw |-> FALSE, value |-> v]
TypeError == [threw |-> TRUE, value |-> EmptyMap]

\* JavaScript undefined and NaN as results of a lookup or of arithmetic.
Undefined == [undefined |-> TRUE]
NaN == [NaN |-> TRUE]

\* The number Infinity, and an array with the given elements.
Infinity == [Infinity |-> TRUE]
ArrayOf(elements) == [array |-> elements]

\* A built-in function, and the object Object.prototype itself.
NativeFunction(name) == [function |-> name]
ObjectPrototypeObject == [object |-> "Object.prototype"]

\* What every plain object ({} or an object literal) inherits from
\* Object.prototype: eleven functions and the accessor __proto__.
InheritedFunctions ==
    {"constructor", "toString", "toLocaleString", "valueOf", "hasOwnProperty",
     "isPrototypeOf", "propertyIsEnumerable", "__defineGetter__",
     "__defineSetter__", "__lookupGetter__", "__lookupSetter__"}

ObjectPrototype ==
    [name \in InheritedFunctions \cup {"__proto__"} |->
        IF name = "__proto__"
        THEN ObjectPrototypeObject
        ELSE NativeFunction(IF name = "constructor" THEN "Object" ELSE name)]

\* The values that are neither numbers nor strings.
NativeValues ==
    {Undefined, NaN, ObjectPrototypeObject}
        \cup {ObjectPrototype[name] : name \in InheritedFunctions}

\* typeof v === 'number' for a finite number: v is written as a numeral.
NumberRange == 300000
Numerals == {ToString(n) : n \in (0 - NumberRange) .. NumberRange}
IsNumber(v) == ToString(v) \in Numerals

\* typeof v === 'string': v is written between quotation marks.
IsString(v) == SubSeq(ToString(v), 1, 1) = "\""

\* typeof v for a string, a number (NaN and Infinity included), undefined, a
\* function, and null, an array or another object.
typeof(v) ==
    IF IsString(v) THEN "string"
    ELSE IF IsNumber(v) THEN "number"
    ELSE IF v \in {NaN, Infinity} THEN "number"
    ELSE IF v = Undefined THEN "undefined"
    ELSE IF DOMAIN v = {"function"} THEN "function"
    ELSE "object"
NativeNumerals == {ToString(v) : v \in NativeValues}
IsNative(v) == ToString(v) \in NativeNumerals

\* obj[k] on a plain object: the own property, else the inherited one, else
\* undefined.
Get(obj, k) ==
    IF k \in DOMAIN obj THEN obj[k]
    ELSE IF k \in DOMAIN ObjectPrototype THEN ObjectPrototype[k]
    ELSE Undefined

\* obj[k] = v for a number or a string v: the inherited setter __proto__
\* ignores a value that is not an object, every other key becomes an own
\* property.
Assign(obj, k, v) ==
    IF k = "__proto__" /\ k \notin DOMAIN obj
    THEN obj
    ELSE [j \in DOMAIN obj \cup {k} |-> IF j = k THEN v ELSE obj[j]]

\* ToBoolean(v)
Truthy(v) ==
    IF IsNumber(v) THEN v # 0
    ELSE IF IsNative(v) THEN v \notin {Undefined, NaN}
    ELSE v # ""

\* String(v), also the property key and the template-literal text of v: an
\* array is the texts of its elements joined by commas (those of null and
\* undefined empty).
RECURSIVE ToJsString(_)
ToJsString(v) ==
    IF IsString(v) THEN v
    ELSE IF IsNumber(v) THEN ToString(v)
    ELSE IF v = Undefined THEN "undefined"
    ELSE IF v = Null THEN "null"
    ELSE IF v = NaN THEN "NaN"
    ELSE IF v = Infinity THEN "Infinity"
    ELSE IF DOMAIN v = {"array"}
    THEN LET Text(i) == IF IsString(v.array[i]) \/ IsNumber(v.array[i])
                        THEN ToJsString(v.array[i])
                        ELSE IF v.array[i] \in {Null, Undefined} THEN ""
                        ELSE ToJsString(v.array[i])
             Joined[i \in 0 .. Len(v.array)] ==
                 IF i = 0 THEN ""
                 ELSE IF i = 1 THEN Text(1)
                 ELSE Joined[i - 1] \o "," \o Text(i)
         IN  Joined[Len(v.array)]
    ELSE IF DOMAIN v = {"function"}
    THEN "function " \o v.function \o "() { [native code] }"
    ELSE "[object Object]"

\* x + y: numeric when both operands are numbers (NaN and undefined count
\* as NaN), string concatenation as soon as one is a string, a function or
\* an object.
IsNumeric(v) == IsNumber(v) \/ (IsNative(v) /\ v \in {Undefined, NaN})
Plus(x, y) ==
    IF IsNumber(x) /\ IsNumber(y) THEN x + y
    ELSE IF IsNumeric(x) /\ IsNumeric(y) THEN NaN
    ELSE ToJsString(x) \o ToJsString(y)

\* x - y: both operands are converted to numbers; a string that is not a
\* numeral, a function, an object, undefined and NaN convert to NaN.
Minus(x, y) == IF IsNumber(x) /\ IsNumber(y) THEN x - y ELSE NaN

\* Lookup with the JavaScript idiom `m[k] || 0`: the value found on the
\* object or its prototype when it is truthy, else 0.
OrZero(m, k) == LET v == Get(m, k) IN IF Truthy(v) THEN v ELSE 0

\* Largest quantity of a requirement entry in the explored catalogs.
MaxQty == 2

\* The item ids of the explored catalogs: two ordinary ids, and one that is
\* also the name of a member of Object.prototype.
Items == {"a", "b", "constructor"}
Quantities == 0 .. MaxQty

----------------------------------------------------------------------------
(* utils/progressKeys.ts *)

\* The key built with another separator.
getHideoutKey_Underscore(moduleId, level) == ToJsString(moduleId) \o "_" \o ToJsString(level)

\* A key made of the id alone.
getHideoutKey_IdOnly(moduleId, level) == ToJsString(moduleId)

\* `${moduleId}-${level}`
getHideoutKey(moduleId, level) == ToJsString(moduleId) \o "-" \o ToJsString(level)

\* `${projectId}-${phase}`
getProjectKey(projectId, phase) == ToJsString(projectId) \o "-" \o ToJsString(phase)

----------------------------------------------------------------------------
(* utils/itemRequirements.ts: the extractors *)

\* aggregated[entry.itemId] = (aggregated[entry.itemId] || 0) + entry.quantity
AddEntry(aggregated, entry) ==
    Assign(aggregated, entry.itemId,
           Plus(OrZero(aggregated, entry.itemId), entry.quantity))

\* for (const entry of entries) { ... }
RECURSIVE AddEntries(_, _)
AddEntries(aggregated, entries) ==
    IF entries = << >>
    THEN aggregated
    ELSE AddEntries(AddEntry(aggregated, Head(entries)), Tail(entries))

\* `!x.field` for an optional list field: true when the field is absent.
Lacks(rec, field) == field \notin DOMAIN rec

RECURSIVE QuestLoop(_, _)
QuestLoop(aggregated, quests) ==
    IF quests = << >>
    THEN aggregated
    ELSE LET quest == Head(quests)
         IN  IF Lacks(quest, "requiredItemIds")
             THEN QuestLoop(aggregated, Tail(quests))
             ELSE QuestLoop(AddEntries(aggregated, quest.requiredItemIds), Tail(quests))

aggregateQuestRequirements(quests) == QuestLoop(EmptyMap, quests)

\* The hideout extractor iterates level.requirementItemIds without a guard:
\* an absent list is not iterable and the for-of throws a TypeError.
RECURSIVE HideoutLevelLoop(_, _)
HideoutLevelLoop(acc, levels) ==
    IF acc.threw \/ levels = << >>
    THEN acc
    ELSE LET level == Head(levels)
         IN  IF Lacks(level, "requirementItemIds")
             THEN TypeError
             ELSE HideoutLevelLoop(Ok(AddEntries(acc.value, level.requirementItemIds)),
                                   Tail(levels))

RECURSIVE HideoutModuleLoop(_, _)
HideoutModuleLoop(acc, modules) ==
    IF acc.threw \/ modules = << >>
    THEN acc
    ELSE HideoutModuleLoop(HideoutLevelLoop(acc, Head(modules).levels), Tail(modules))

aggregateHideoutRequirements(modules) == HideoutModuleLoop(Ok(EmptyMap), modules)

\* addRequirements: for (const [itemId, quantity] of Object.entries(reqs))
\* totalRequirements[itemId] = (totalRequirements[itemId] || 0) + quantity
addRequirements(totalRequirements, reqs) ==
    LET assigned == {k \in DOMAIN reqs :
                        k # "__proto__" \/ k \in DOMAIN totalRequirements}
    IN  [k \in DOMAIN totalRequirements \cup assigned |->
            IF k \in assigned
            THEN Plus(OrZero(totalRequirements, k), reqs[k])
            ELSE totalRequirements[k]]

\* A variant that reads a category-value map as if it were item quantities.
RECURSIVE ProjectPhaseLoop_CountsCategories(_, _)
ProjectPhaseLoop_CountsCategories(aggregated, phases) ==
    IF phases = << >>
    THEN aggregated
    ELSE LET phase == Head(phases)
         IN  IF ~Lacks(phase, "requirementItemIds")
             THEN ProjectPhaseLoop_CountsCategories(
                      AddEntries(aggregated, phase.requirementItemIds), Tail(phases))
             ELSE IF ~Lacks(phase, "requirementCategories")
             THEN ProjectPhaseLoop_CountsCategories(
                      addRequirements(aggregated, phase.requirementCategories),
                      Tail(phases))
             ELSE ProjectPhaseLoop_CountsCategories(aggregated, Tail(phases))

RECURSIVE ProjectPhaseLoop(_, _)
ProjectPhaseLoop(aggregated, phases) ==
    IF phases = << >>
    THEN aggregated
    ELSE LET phase == Head(phases)
         IN  IF Lacks(phase, "requirementItemIds")
             THEN ProjectPhaseLoop(aggregated, Tail(phases))
             ELSE ProjectPhaseLoop(AddEntries(aggregated, phase.requirementItemIds),
                                   Tail(phases))

RECURSIVE ProjectLoop(_, _)
ProjectLoop(aggregated, projects) ==
    IF projects = << >>
    THEN aggregated
    ELSE ProjectLoop(ProjectPhaseLoop(aggregated, Head(projects).phases), Tail(projects))

aggregateProjectRequirements(projects) == ProjectLoop(EmptyMap, projects)

calculateItemRequirements(quests, modules, projects) ==
    LET questReqs == aggregateQuestRequirements(quests)
        hideoutReqs == aggregateHideoutRequirements(modules)
        projectReqs == aggregateProjectRequirements(projects)
    IN  IF hideoutReqs.threw
        THEN TypeError
        ELSE Ok(addRequirements(
                    addRequirements(addRequirements(EmptyMap, questReqs),
                                    hideoutReqs.value),
                    projectReqs))

----------------------------------------------------------------------------
(* utils/itemRequirements.ts: remaining = total - completed, floored *)

\* Math.max(0, x): NaN when x is NaN.
MathMax0(x) == IF IsNumber(x) THEN (IF x >= 0 THEN x ELSE 0) ELSE NaN

\* x > 0 for a number: false when x is NaN, true when x is Infinity.
Positive(x) == IF IsNumber(x) THEN x > 0 ELSE x = Infinity

\* Math.max(0, totalQuantity - (completed[itemId] || 0))
remainingQuantity(totalReqs, completedReqs, itemId) ==
    MathMax0(Minus(totalReqs[itemId], OrZero(completedReqs, itemId)))

calculateRemainingRequirements(totalReqs, completedReqs) ==
    LET needed == {itemId \in DOMAIN totalReqs :
                    /\ Positive(remainingQuantity(totalReqs, completedReqs, itemId))
                    /\ itemId # "__proto__"}
    IN  [itemId \in needed |-> remainingQuantity(totalReqs, completedReqs, itemId)]

----------------------------------------------------------------------------
(* utils/itemRequirements.ts: calculateCompletedRequirements *)

\* progress[collectionKey] is an object, not undefined: the progress has the
\* property.
Has(state, collectionKey) == collectionKey \in DOMAIN state

\* `collection[key]?.completed` is truthy: the entry exists and is completed.
MarkedCompleted(collection, key) ==
    key \in DOMAIN collection /\ collection[key].completed

RECURSIVE CompletedQuestLoop(_, _, _)
CompletedQuestLoop(acc, prog, quests) ==
    IF quests = << >>
    THEN acc
    ELSE LET quest == Head(quests)
         IN  IF ~MarkedCompleted(prog.quests, quest.id)
             THEN CompletedQuestLoop(acc, prog, Tail(quests))
             ELSE IF Lacks(quest, "requiredItemIds")
             THEN CompletedQuestLoop(acc, prog, Tail(quests))
             ELSE CompletedQuestLoop(AddEntries(acc, quest.requiredItemIds), prog,
                                     Tail(quests))

RECURSIVE CompletedLevelLoop(_, _, _, _)
CompletedLevelLoop(acc, prog, moduleId, levels) ==
    IF levels = << >>
    THEN acc
    ELSE LET level == Head(levels)
             key == getHideoutKey(moduleId, level.level)
         IN  IF ~MarkedCompleted(prog.hideout, key)
             THEN CompletedLevelLoop(acc, prog, moduleId, Tail(levels))
             ELSE IF Lacks(level, "requirementItemIds")
             THEN CompletedLevelLoop(acc, prog, moduleId, Tail(levels))
             ELSE CompletedLevelLoop(AddEntries(acc, level.requirementItemIds), prog,
                                     moduleId, Tail(levels))

RECURSIVE CompletedModuleLoop(_, _, _)
CompletedModuleLoop(acc, prog, modules) ==
    IF modules = << >>
    THEN acc
    ELSE CompletedModuleLoop(
             CompletedLevelLoop(acc, prog, Head(modules).id, Head(modules).levels),
             prog, Tail(modules))

RECURSIVE CompletedPhaseLoop(_, _, _, _)
CompletedPhaseLoop(acc, prog, projectId, phases) ==
    IF phases = << >>
    THEN acc
    ELSE LET phase == Head(phases)
             key == getProjectKey(projectId, phase.phase)
         IN  IF ~MarkedCompleted(prog.projects, key)
             THEN CompletedPhaseLoop(acc, prog, projectId, Tail(phases))
             ELSE IF Lacks(phase, "requirementItemIds")
             THEN CompletedPhaseLoop(acc, prog, projectId, Tail(phases))
             ELSE CompletedPhaseLoop(AddEntries(acc, phase.requirementItemIds), prog,
                                     projectId, Tail(phases))

RECURSIVE CompletedProjectLoop(_, _, _)
CompletedProjectLoop(acc, prog, projects) ==
    IF projects = << >>
    THEN acc
    ELSE CompletedProjectLoop(
             CompletedPhaseLoop(acc, prog, Head(projects).id, Head(projects).phases),
             prog, Tail(projects))

\* progress.quests[quest.id], progress.hideout[key] and progress.projects[key]
\* are reads of a key of undefined, a TypeError, when the snapshot has no such
\* collection and a loop reaches the read.
ReadsUndefined(prog, quests, hideoutModules, projects) ==
    \/ ~Has(prog, "quests") /\ quests # << >>
    \/ /\ ~Has(prog, "hideout")
       /\ \E i \in 1 .. Len(hideoutModules) : hideoutModules[i].levels # << >>
    \/ /\ ~Has(prog, "projects")
       /\ \E i \in 1 .. Len(projects) : projects[i].phases # << >>

calculateCompletedRequirements(prog, quests, hideoutModules, projects) ==
    IF ReadsUndefined(prog, quests, hideoutModules, projects)
    THEN TypeError
    ELSE Ok(CompletedProjectLoop(
                CompletedModuleLoop(
                    CompletedQuestLoop(EmptyMap, prog, quests),
                    prog, hideoutModules),
                prog, projects))

----------------------------------------------------------------------------
(* stores/progressStore.ts *)

initialState == [quests |-> EmptyMap, hideout |-> EmptyMap, projects |-> EmptyMap,
                 version |-> 1]

\* The validity test without its typeof: questId != null && questId.length > 0,
\* which an array that holds something passes.
isValidQuestId_AnyType(questId) ==
    IF IsString(questId) THEN Len(questId) > 0
    ELSE IF IsNumber(questId) THEN FALSE
    ELSE DOMAIN questId = {"array"} /\ Len(questId.array) > 0

\* typeof questId === 'string' && questId.length > 0
isValidQuestId(questId) == typeof(questId) = "string" /\ Len(questId) > 0

\* The validity test that accepts any number.
isValidHideoutLevel_AnyLevel(moduleId, level) ==
    typeof(moduleId) = "string" /\ Len(moduleId) > 0 /\ typeof(level) = "number"

\* typeof moduleId === 'string' && moduleId.length > 0 &&
\* typeof level === 'number' && level > 0
isValidHideoutLevel(moduleId, level) ==
    /\ typeof(moduleId) = "string" /\ Len(moduleId) > 0
    /\ typeof(level) = "number" /\ Positive(level)

\* typeof projectId === 'string' && projectId.length > 0 &&
\* typeof phase === 'number' && phase > 0
isValidProjectPhase(projectId, phase) ==
    /\ typeof(projectId) = "string" /\ Len(projectId) > 0
    /\ typeof(phase) = "number" /\ Positive(phase)

\* { ...collection, [key]: value }: the computed key is converted to a string.
Put(collection, key, value) ==
    [k \in DOMAIN collection \cup {ToJsString(key)} |->
        IF k = ToJsString(key) THEN value ELSE collection[k]]

\* The destructuring that drops nothing.
Without_KeepsKey(collection, key) == collection

\* const { [key]: removed, ...remaining } = collection
Without(collection, key) ==
    [k \in DOMAIN collection \ {ToJsString(key)} |-> collection[k]]

\* { ...state.progress[collectionKey] }: spreading undefined gives {}.
Spread(state, collectionKey) ==
    IF Has(state, collectionKey) THEN state[collectionKey] ELSE EmptyMap

\* { ...state.progress, [collectionKey]: collection }
WithCollection(state, collectionKey, collection) ==
    [f \in DOMAIN state \cup {collectionKey} |->
        IF f = collectionKey THEN collection ELSE state[f]]

\* What the updater createCompleteAction(collectionKey, key, entry) returns
\* for state.progress at time `now`.
createCompleteAction(state, collectionKey, key, entry, now) ==
    Ok(WithCollection(state, collectionKey,
                      Put(Spread(state, collectionKey), key,
                          [entry EXCEPT !.completed = TRUE, !.completedAt = now])))

\* Uncompleting that keeps the entry and clears its flag.
createUncompleteAction_MarksFalse(state, collectionKey, key) ==
    IF ~Has(state, collectionKey)
    THEN TypeError
    ELSE Ok([state EXCEPT ![collectionKey] =
                [k \in DOMAIN @ |->
                    IF k = ToJsString(key) THEN [@[k] EXCEPT !.completed = FALSE] ELSE @[k]]])

\* What the updater createUncompleteAction(collectionKey, key) returns for
\* state.progress; destructuring an undefined collection is a TypeError.
createUncompleteAction(state, collectionKey, key) ==
    IF ~Has(state, collectionKey)
    THEN TypeError
    ELSE Ok([state EXCEPT ![collectionKey] = Without(@, key)])

\* collection[key]?.completed ?? false; reading a key of an undefined
\* collection is a TypeError.
isCompleted(state, collectionKey, key) ==
    IF ~Has(state, collectionKey) THEN TypeError
    ELSE IF ToJsString(key) \in DOMAIN state[collectionKey]
    THEN Ok(state[collectionKey][ToJsString(key)].completed)
    ELSE Ok(FALSE)

isQuestCompleted(questId) ==
    IF ~isValidQuestId(questId) THEN Ok(FALSE) ELSE isCompleted(progress, "quests", questId)

isHideoutLevelCompleted(moduleId, level) ==
    IF ~isValidHideoutLevel(moduleId, level)
    THEN Ok(FALSE)
    ELSE isCompleted(progress, "hideout", getHideoutKey(moduleId, level))

isProjectPhaseCompleted(projectId, phase) ==
    IF ~isValidProjectPhase(projectId, phase)
    THEN Ok(FALSE)
    ELSE isCompleted(progress, "projects", getProjectKey(projectId, phase))

\* What `new Date().toISOString()` returns: an ISO instant, never null. The
\* clock is an input of the store; one instant is explored. "null" stands
\* for a null completedAt.
Timestamps == {"2025-01-01T00:00:00.000Z"}
NoTimestamp == "null"

\* An argument as the record of the last operation keeps it: marked as a
\* string or a number when it is one, as it is otherwise.
Arg(v) == IF IsString(v) THEN [string |-> v] ELSE IF IsNumber(v) THEN [number |-> v] ELSE v

\* The record of the operation applied last and its arguments.
Applied(name, id, n) == [name |-> name, id |-> Arg(id), n |-> Arg(n)]
NotApplied == Applied("init", "", 0)

\* A property of the store's state that holds a function (an action or a query).
Function == [function |-> TRUE]

\* The state object of the store: progress and the ten functions.
StoreState(prog) ==
    [progress |-> prog,
     completeQuest |-> Function, uncompleteQuest |-> Function,
     isQuestCompleted |-> Function,
     completeHideoutLevel |-> Function, uncompleteHideoutLevel |-> Function,
     isHideoutLevelCompleted |-> Function,
     completeProjectPhase |-> Function, uncompleteProjectPhase |-> Function,
     isProjectPhaseCompleted |-> Function,
     reset |-> Function]

\* How the values are written that JSON.stringify treats specially: null,
\* NaN and Infinity become null; undefined and functions are left out of an
\* object and become null in an array.  (Compared as written, because an
\* object may hold any key.)
WrittenAsNull == {ToString(Null), ToString(NaN), ToString(Infinity)}
LeftOut ==
    {ToString(Undefined), ToString(Function)}
        \cup {ToString(ObjectPrototype[name]) : name \in InheritedFunctions}

\* JSON.parse(JSON.stringify(value)): strings, finite numbers and booleans
\* come back as they are; null, NaN and Infinity come back as null; an array
\* comes back with null in place of undefined and functions; an object
\* comes back without its properties that hold undefined or a function.
RECURSIVE JsonRoundTrip(_)
JsonRoundTrip(value) ==
    LET written == ToString(value)
    IN  IF \/ SubSeq(written, 1, 1) = "\""
           \/ written \in {"TRUE", "FALSE"}
           \/ written \in Numerals
        THEN value
        ELSE IF written \in WrittenAsNull THEN Null
        ELSE IF DOMAIN value = {"array"}
        THEN ArrayOf([i \in DOMAIN value.array |->
                         IF ToString(value.array[i]) \in LeftOut
                         THEN Null
                         ELSE JsonRoundTrip(value.array[i])])
        ELSE [k \in {x \in DOMAIN value : ToString(value[x]) \notin LeftOut} |->
                 JsonRoundTrip(value[k])]

\* persist with createJSONStorage(() => localStorage) and no partialize:
\* what the item 'arc-loot-helper-progress' parses to after a set().
setItem(prog) == [state |-> JsonRoundTrip(StoreState(prog)), version |-> 0]

\* persist at the creation of the store: the state found in the item
\* replaces the initial one property by property ({ ...state, ...item.state });
\* an absent item, or one of another version than 0, leaves the initial state.
Hydrates(item) ==
    IF item = Null THEN FALSE
    ELSE item.version = 0 /\ "progress" \in DOMAIN item.state

hydrate(item) == IF Hydrates(item) THEN item.state.progress ELSE initialState

\* The object a set() or the hydration builds is a new one: it is none of the
\* objects referred to so far, of which only the one the sync effect last ran
\* with and the one a kept effect was rendered with are ever compared.
NewObject ==
    LET held == (IF "progress" \in DOMAIN lastDeps THEN {lastDeps.progress} ELSE {})
                \cup (IF "deps" \in DOMAIN kept THEN {kept.deps.progress} ELSE {})
    IN  CHOOSE n \in 1 .. 3 : n \notin held /\ \A m \in 1 .. 3 : m \notin held => n <= m

\* Everything a progress-store operation leaves alone.
StoreFrame ==
    UNCHANGED <<gameData, reqTotal, reqCompleted, total, completed, remaining,
                previous, lastDeps, kept, callVars, loader, request>>

\* `if (!isValid...(...)) return`
ReturnsEarly ==
    /\ ret' = Ok(EmptyMap)
    /\ UNCHANGED <<progress, localStorage, progressRef>>

\* set(updater): the state the updater returned becomes the progress, a new
\* object, and persist writes it to the item; when the updater raised, the
\* error leaves the operation and nothing is set.
Set(updated) ==
    IF updated.threw
    THEN /\ ret' = TypeError
         /\ UNCHANGED <<progress, localStorage, progressRef>>
    ELSE /\ ret' = Ok(EmptyMap)
         /\ progress' = updated.value
         /\ progressRef' = NewObject
         /\ localStorage' = setItem(updated.value)

completeQuest(questId, now) ==
    /\ op' = Applied("completeQuest", questId, 0)
    /\ IF ~isValidQuestId(questId)
       THEN ReturnsEarly
       ELSE Set(createCompleteAction(progress, "quests", questId,
                    [questId |-> questId, completed |-> FALSE,
                     completedAt |-> NoTimestamp], now))
    /\ StoreFrame

uncompleteQuest(questId) ==
    /\ op' = Applied("uncompleteQuest", questId, 0)
    /\ IF ~isValidQuestId(questId)
       THEN ReturnsEarly
       ELSE Set(createUncompleteAction(progress, "quests", questId))
    /\ StoreFrame

\* A variant that builds its key by hand, with another separator.
completeHideoutLevel_OwnKey(moduleId, level, now) ==
    /\ op' = Applied("completeHideoutLevel", moduleId, level)
    /\ IF ~isValidHideoutLevel(moduleId, level)
       THEN ReturnsEarly
       ELSE Set(createCompleteAction(progress, "hideout",
                    moduleId \o "_" \o ToJsString(level),
                    [moduleId |-> moduleId, level |-> level, completed |-> FALSE,
                     completedAt |-> NoTimestamp], now))
    /\ StoreFrame

completeHideoutLevel(moduleId, level, now) ==
    /\ op' = Applied("completeHideoutLevel", moduleId, level)
    /\ IF ~isValidHideoutLevel(moduleId, level)
       THEN ReturnsEarly
       ELSE Set(createCompleteAction(progress, "hideout",
                    getHideoutKey(moduleId, level),
                    [moduleId |-> moduleId, level |-> level, completed |-> FALSE,
                     completedAt |-> NoTimestamp], now))
    /\ StoreFrame

uncompleteHideoutLevel(moduleId, level) ==
    /\ op' = Applied("uncompleteHideoutLevel", moduleId, level)
    /\ IF ~isValidHideoutLevel(moduleId, level)
       THEN ReturnsEarly
       ELSE Set(createUncompleteAction(progress, "hideout",
                                       getHideoutKey(moduleId, level)))
    /\ StoreFrame

completeProjectPhase(projectId, phase, now) ==
    /\ op' = Applied("completeProjectPhase", projectId, phase)
    /\ IF ~isValidProjectPhase(projectId, phase)
       THEN ReturnsEarly
       ELSE Set(createCompleteAction(progress, "projects",
                    getProjectKey(projectId, phase),
                    [projectId |-> projectId, phase |-> phase, completed |-> FALSE,
                     completedAt |-> NoTimestamp], now))
    /\ StoreFrame

uncompleteProjectPhase(projectId, phase) ==
    /\ op' = Applied("uncompleteProjectPhase", projectId, phase)
    /\ IF ~isValidProjectPhase(projectId, phase)
       THEN ReturnsEarly
       ELSE Set(createUncompleteAction(progress, "projects",
                                       getProjectKey(projectId, phase)))
    /\ StoreFrame

\* reset: set({ progress: initialState }), the one object initialState.
reset ==
    /\ op' = Applied("reset", "", 0)
    /\ ret' = Ok(EmptyMap)
    /\ progress' = initialState
    /\ progressRef' = 0
    /\ localStorage' = setItem(initialState)
    /\ StoreFrame

----------------------------------------------------------------------------
(* stores/remainingRequirementsStore.ts *)

\* calculate returning early on a null catalog without set({ remaining: null }).
calculateOn_ReturnsEarly(data, prog) ==
    /\ op' = Applied("calculate", "", 0)
    /\ IF data = Null
       THEN /\ total' = Null
            /\ completed' = Null
            /\ ret' = Ok(EmptyMap)
            /\ UNCHANGED <<remaining, previous>>
       ELSE LET t == calculateItemRequirements(data.quests, data.hideoutModules,
                                               data.projects)
                c == calculateCompletedRequirements(prog, data.quests,
                                                    data.hideoutModules,
                                                    data.projects)
            IN  IF t.threw \/ c.threw
                THEN /\ ret' = TypeError
                     /\ total' = Null
                     /\ completed' = Null
                     /\ UNCHANGED <<remaining, previous>>
                ELSE /\ total' = t.value
                     /\ completed' = c.value
                     /\ remaining' = calculateRemainingRequirements(t.value, c.value)
                     /\ previous' = remaining
                     /\ ret' = Ok(EmptyMap)

\* calculate(gameData, progress): the locals total and completed are recorded.
\* A TypeError raised by calculateItemRequirements or by
\* calculateCompletedRequirements leaves the store untouched.
\* set({ remaining: value }) replaces the cached value in one assignment.
\* The body of calculate on the arguments (data, prog).
calculateOn(data, prog) ==
    /\ op' = Applied("calculate", "", 0)
    /\ IF data = Null
       THEN /\ remaining' = Null
            /\ previous' = remaining
            /\ total' = Null
            /\ completed' = Null
            /\ ret' = Ok(EmptyMap)
       ELSE LET t == calculateItemRequirements(data.quests, data.hideoutModules,
                                               data.projects)
                c == calculateCompletedRequirements(prog, data.quests,
                                                    data.hideoutModules,
                                                    data.projects)
            IN  IF t.threw \/ c.threw
                THEN /\ ret' = TypeError
                     /\ total' = Null
                     /\ completed' = Null
                     /\ UNCHANGED <<remaining, previous>>
                ELSE /\ total' = t.value
                     /\ completed' = c.value
                     /\ remaining' = calculateRemainingRequirements(t.value, c.value)
                     /\ previous' = remaining
                     /\ ret' = Ok(EmptyMap)

\* calculate called with the catalog and the snapshot of the state.
calculate ==
    /\ calculateOn(gameData, progress)
    /\ UNCHANGED <<gameData, progress, reqTotal, reqCompleted, lastDeps, localStorage, progressRef, kept, loader, request, callVars>>

\* getQuantityNeeded(itemId): get().remaining?.[itemId] ?? 0
getQuantityNeeded(itemId) ==
    IF remaining = Null THEN 0
    ELSE LET v == Get(remaining, itemId)
         IN  IF IsNative(v) /\ v = Undefined THEN 0 ELSE v

----------------------------------------------------------------------------
(* The explored inputs *)

Entry(itemId, quantity) == [itemId |-> itemId, quantity |-> quantity]

\* Requirement lists: empty, one entry, the same item twice, two items.
RequirementLists ==
    {<< >>}
    \cup {<<Entry(i, q)>> : i \in Items, q \in Quantities}
    \cup {<<Entry("a", 1), Entry("a", MaxQty)>>, <<Entry("a", 1), Entry("b", 1)>>}

\* A quest with the optional requiredItemIds absent or present.
QuestsWithId(id) ==
    {[id |-> id]} \cup {[id |-> id, requiredItemIds |-> r] : r \in RequirementLists}

QuestLists ==
    {<< >>}
    \cup {<<x>> : x \in QuestsWithId("q1")}
    \cup {<<x, y>> : x \in QuestsWithId("q1"), y \in QuestsWithId("q2")}

\* Hideout levels as typed (HideoutModuleLevel.requirementItemIds is required) ...
TypedLevels(n) == {[level |-> n, requirementItemIds |-> r] : r \in RequirementLists}

\* ... and as the JSON may deliver them, the list missing.
AnyLevels(n) == TypedLevels(n) \cup {[level |-> n]}

Module(id, levels) == [id |-> id, levels |-> levels]

\* No module, a module without levels, one level, two levels, two modules.
ModuleListsOver(L1, L2) ==
    {<< >>, <<Module("m", << >>)>>}
    \cup {<<Module("m", <<x>>)>> : x \in L1}
    \cup {<<Module("m", <<x, y>>)>> : x \in L1, y \in L2}
    \cup {<<Module("m", <<x>>), Module("m-1", <<y>>)>> : x \in L1, y \in L1}

AnyModuleLists == ModuleListsOver(AnyLevels(1), AnyLevels(2))

\* The value-based requirement of a phase ('Combat Items': 250000).
CategoryRequirements == [c \in {"Combat Items"} |-> 250000]

\* A phase with neither field, with only the category map, or with an item list.
Phases(n) ==
    {[phase |-> n], [phase |-> n, requirementCategories |-> CategoryRequirements]}
    \cup {[phase |-> n, requirementItemIds |-> r] : r \in RequirementLists}

Project(id, phases) == [id |-> id, phases |-> phases]

ProjectLists ==
    {<< >>, <<Project("p", << >>)>>}
    \cup {<<Project("p", <<x>>)>> : x \in Phases(1)}
    \cup {<<Project("p", <<x, y>>)>> : x \in Phases(1), y \in Phases(2)}
    \cup {<<Project("p", <<x>>), Project("p-1", <<y>>)>> : x \in Phases(1), y \in Phases(1)}

Catalog(quests, hideoutModules, projects) ==
    [quests |-> quests, hideoutModules |-> hideoutModules, projects |-> projects]

\* One entity of each kind.
MixedCatalogs(L1) ==
    {Catalog(<<q>>, <<Module("m", <<l>>)>>, <<Project("p", <<f>>)>>) :
        q \in QuestsWithId("q1"), l \in L1, f \in Phases(1)}

\* Progress collections: any subset of the keys, each entry completed or not.
Flags(keys) == UNION {[S -> BOOLEAN] : S \in SUBSET keys}

StampOf(done) == IF done THEN "2025-01-01T00:00:00.000Z" ELSE NoTimestamp

QuestCollections(ids) ==
    {[k \in DOMAIN f |-> [questId |-> k, completed |-> f[k], completedAt |-> StampOf(f[k])]] :
        f \in Flags(ids)}

HideoutCollections(pairs) ==
    {[k \in {getHideoutKey(p[1], p[2]) : p \in DOMAIN f} |->
        LET p == CHOOSE p \in DOMAIN f : getHideoutKey(p[1], p[2]) = k
        IN  [moduleId |-> p[1], level |-> p[2], completed |-> f[p],
             completedAt |-> StampOf(f[p])]] :
        f \in Flags(pairs)}

ProjectCollections(pairs) ==
    {[k \in {getProjectKey(p[1], p[2]) : p \in DOMAIN f} |->
        LET p == CHOOSE p \in DOMAIN f : getProjectKey(p[1], p[2]) = k
        IN  [projectId |-> p[1], phase |-> p[2], completed |-> f[p],
             completedAt |-> StampOf(f[p])]] :
        f \in Flags(pairs)}

Snapshot(quests, hideout, projects) ==
    [quests |-> quests, hideout |-> hideout, projects |-> projects, version |-> 1]

\* Catalog and snapshot together: two entities of one kind, or one of each kind.
PipelineInputs ==
    ({Catalog(q, << >>, << >>) : q \in QuestLists}
        \X {Snapshot(c, EmptyMap, EmptyMap) : c \in QuestCollections({"q1", "q2"})})
    \cup
    ({Catalog(<< >>, h, << >>) : h \in AnyModuleLists}
        \X {Snapshot(EmptyMap, c, EmptyMap) :
               c \in HideoutCollections({<<"m", 1>>, <<"m", 2>>, <<"m-1", 1>>})})
    \cup
    ({Catalog(<< >>, << >>, p) : p \in ProjectLists}
        \X {Snapshot(EmptyMap, EmptyMap, c) :
               c \in ProjectCollections({<<"p", 1>>, <<"p", 2>>, <<"p-1", 1>>})})
    \cup
    (MixedCatalogs(TypedLevels(1))
        \X {Snapshot(q, h, p) : q \in QuestCollections({"q1"}),
                                h \in HideoutCollections({<<"m", 1>>}),
                                p \in ProjectCollections({<<"p", 1>>})})

ExtractInputs ==
    {Catalog(q, << >>, << >>) : q \in QuestLists}
    \cup {Catalog(<< >>, h, << >>) : h \in AnyModuleLists}
    \cup {Catalog(<< >>, << >>, p) : p \in ProjectLists}
    \cup MixedCatalogs(AnyLevels(1))

\* Requirement maps over the items, with quantities that may be 0 or negative.
RequirementMaps == UNION {[S -> (-1) .. MaxQty] : S \in SUBSET Items}

----------------------------------------------------------------------------
(* Direct calls of the pure functions *)

CallFrame ==
    UNCHANGED <<gameData, progress, reqTotal, reqCompleted, remaining,
                previous, lastDeps, localStorage, progressRef, kept, loader, request, callVars>>

CallAggregateQuestRequirements ==
    /\ op' = Applied("aggregateQuestRequirements", "", 0)
    /\ ret' = Ok(aggregateQuestRequirements(gameData.quests))
    /\ UNCHANGED <<total, completed>>
    /\ CallFrame

CallAggregateHideoutRequirements ==
    /\ op' = Applied("aggregateHideoutRequirements", "", 0)
    /\ ret' = aggregateHideoutRequirements(gameData.hideoutModules)
    /\ UNCHANGED <<total, completed>>
    /\ CallFrame

CallAggregateProjectRequirements ==
    /\ op' = Applied("aggregateProjectRequirements", "", 0)
    /\ ret' = Ok(aggregateProjectRequirements(gameData.projects))
    /\ UNCHANGED <<total, completed>>
    /\ CallFrame

CallCalculateItemRequirements ==
    /\ op' = Applied("calculateItemRequirements", "", 0)
    /\ ret' = calculateItemRequirements(gameData.quests, gameData.hideoutModules,
                                        gameData.projects)
    /\ total' = IF ret'.threw THEN Null ELSE ret'.value
    /\ UNCHANGED completed
    /\ CallFrame

\* The calculator without its `if (!x.requirementItemIds) continue` guards:
\* iterating the absent list of a completed entity throws.
CallCalculateCompletedRequirements_Unguarded ==
    LET absent ==
            \/ \E i \in 1 .. Len(gameData.quests) :
                  /\ MarkedCompleted(progress.quests, gameData.quests[i].id)
                  /\ Lacks(gameData.quests[i], "requiredItemIds")
            \/ \E i \in 1 .. Len(gameData.hideoutModules) :
                  \E j \in 1 .. Len(gameData.hideoutModules[i].levels) :
                     LET level == gameData.hideoutModules[i].levels[j]
                     IN  /\ MarkedCompleted(progress.hideout,
                                 getHideoutKey(gameData.hideoutModules[i].id, level.level))
                         /\ Lacks(level, "requirementItemIds")
            \/ \E i \in 1 .. Len(gameData.projects) :
                  \E j \in 1 .. Len(gameData.projects[i].phases) :
                     LET phase == gameData.projects[i].phases[j]
                     IN  /\ MarkedCompleted(progress.projects,
                                 getProjectKey(gameData.projects[i].id, phase.phase))
                         /\ Lacks(phase, "requirementItemIds")
    IN  /\ op' = Applied("calculateCompletedRequirements", "", 0)
        /\ ret' = IF absent
                  THEN TypeError
                  ELSE calculateCompletedRequirements(progress, gameData.quests,
                                                      gameData.hideoutModules,
                                                      gameData.projects)
        /\ completed' = ret'.value
        /\ UNCHANGED total
        /\ CallFrame

CallCalculateCompletedRequirements ==
    /\ op' = Applied("calculateCompletedRequirements", "", 0)
    /\ ret' = calculateCompletedRequirements(progress, gameData.quests,
                                             gameData.hideoutModules, gameData.projects)
    /\ completed' = ret'.value
    /\ UNCHANGED total
    /\ CallFrame

CallCalculateRemainingRequirements ==
    /\ op' = Applied("calculateRemainingRequirements", "", 0)
    /\ ret' = Ok(calculateRemainingRequirements(reqTotal, reqCompleted))
    /\ UNCHANGED <<total, completed>>
    /\ CallFrame

----------------------------------------------------------------------------
(* Specifications *)

\* The progress store is not part of the run: nothing is stored and the
\* progress is an argument of the calls.
NothingStored ==
    /\ localStorage = Null
    /\ progressRef = 0

\* The items the store may find in localStorage when it is created: none,
\* or one the store wrote in an earlier session.
StoredItems ==
    {Null,
     setItem([initialState EXCEPT !.quests =
                 [k \in {"q1"} |->
                     [questId |-> k, completed |-> TRUE,
                      completedAt |-> "2025-01-01T00:00:00.000Z"]]])}

\* create(persist(...)): the store starts from the item it finds.
StoreCreated ==
    \E item \in StoredItems :
        /\ localStorage = item
        /\ progress = hydrate(item)
        /\ progressRef = IF Hydrates(item) THEN 1 ELSE 0

\* No set() happened, the sync hook never rendered, no calculate call is in progress.
NothingCached ==
    /\ previous = Null
    /\ lastDeps = Null
    /\ kept = Null
    /\ loader = Null
    /\ request = Null
    /\ pc = "idle"
    /\ building = EmptyMap
    /\ todo = {}

\* The remaining calculator on arbitrary total and completed maps.
InitRemaining ==
    /\ reqTotal \in RequirementMaps
    /\ reqCompleted \in RequirementMaps
    /\ gameData = Null
    /\ progress = initialState
    /\ total = Null /\ completed = Null /\ remaining = Null
    /\ op = NotApplied
    /\ ret = Ok(EmptyMap)
    /\ NothingCached
    /\ NothingStored

NextRemaining == CallCalculateRemainingRequirements

SpecRemaining == InitRemaining /\ [][NextRemaining]_vars

\* The extractors and the aggregator on a catalog.
InitExtract ==
    /\ gameData \in ExtractInputs
    /\ progress = initialState
    /\ reqTotal = EmptyMap /\ reqCompleted = EmptyMap
    /\ total = Null /\ completed = Null /\ remaining = Null
    /\ op = NotApplied
    /\ ret = Ok(EmptyMap)
    /\ NothingCached
    /\ NothingStored

NextExtract ==
    \/ CallAggregateQuestRequirements
    \/ CallAggregateHideoutRequirements
    \/ CallAggregateProjectRequirements
    \/ CallCalculateItemRequirements

SpecExtract == InitExtract /\ [][NextExtract]_vars

\* The completed calculator and the whole pipeline on a catalog and a snapshot.
InitPipeline ==
    /\ \E input \in PipelineInputs :
          /\ gameData = input[1]
          /\ progress = input[2]
    /\ reqTotal = EmptyMap /\ reqCompleted = EmptyMap
    /\ total = Null /\ completed = Null /\ remaining = Null
    /\ op = NotApplied
    /\ ret = Ok(EmptyMap)
    /\ NothingCached
    /\ NothingStored

NextPipeline ==
    \/ /\ op = NotApplied
       /\ CallCalculateCompletedRequirements
    \/ /\ op = NotApplied
       /\ calculate

SpecPipeline == InitPipeline /\ [][NextPipeline]_vars

\* The progress store driven by its callers, next to a loaded catalog in
\* which every quest, level and phase requires an item of its own.
MaxLevel == 2

Levels == 1 .. MaxLevel
QuestIds == {"q1", "q2"}
ModuleIds == {"m", "m-1"}
ProjectIds == {"p"}

\* The argument a caller passed, out of the form in which the record of the
\* last operation keeps it.
Value(a) ==
    IF DOMAIN a = {"string"} THEN a.string
    ELSE IF DOMAIN a = {"number"} THEN a.number
    ELSE a

\* Arguments the callers may pass for an id: the ids above and the empty
\* id, and values that are no string: null, undefined, an array holding an id.
IllTypedIds(ids) == {Null, Undefined, ArrayOf(<<CHOOSE id \in ids : TRUE>>)}
IdArgs(ids) == {Arg(id) : id \in ids \cup {""}} \cup IllTypedIds(ids)

\* Arguments for a level or phase that are not a positive number: NaN,
\* undefined (the argument left out), the string "1".
IllTypedLevels == {NaN, Undefined, Arg("1")}

\* Argument pairs the callers may pass: the ids above and the empty id with
\* the levels above, 0 and -1; an ill-typed id with level 1; an id with an
\* ill-typed level.
PairArgs(ids) ==
    {<<Arg(id), Arg(n)>> : id \in ids \cup {""}, n \in (-1) .. MaxLevel}
        \cup {<<a, Arg(1)>> : a \in IllTypedIds(ids)}
        \cup {<<Arg(CHOOSE id \in ids : TRUE), n>> : n \in IllTypedLevels}

ProbeItem(kind, id, n) == kind \o ":" \o id \o ":" \o ToString(n)

ProbeModule(id) ==
    Module(id, [l \in Levels |->
                   [level |-> l,
                    requirementItemIds |-> <<Entry(ProbeItem("hideout", id, l), 1)>>]])

ProbeProject(id) ==
    Project(id, [n \in Levels |->
                    [phase |-> n,
                     requirementItemIds |-> <<Entry(ProbeItem("project", id, n), 1)>>]])

ProbeQuest(id) ==
    [id |-> id, requiredItemIds |-> <<Entry(ProbeItem("quest", id, 0), 1)>>]

ProbeCatalog ==
    Catalog(<<ProbeQuest("q1"), ProbeQuest("q2")>>,
            <<ProbeModule("m"), ProbeModule("m-1")>>,
            <<ProbeProject("p")>>)

InitStore ==
    /\ gameData = ProbeCatalog
    /\ StoreCreated
    /\ reqTotal = EmptyMap /\ reqCompleted = EmptyMap
    /\ total = Null /\ completed = Null /\ remaining = Null
    /\ op = NotApplied
    /\ ret = Ok(EmptyMap)
    /\ NothingCached

NextStore ==
    \/ \E questId \in IdArgs(QuestIds), now \in Timestamps :
           completeQuest(Value(questId), now)
    \/ \E questId \in IdArgs(QuestIds) : uncompleteQuest(Value(questId))
    \/ \E args \in PairArgs(ModuleIds), now \in Timestamps :
           completeHideoutLevel(Value(args[1]), Value(args[2]), now)
    \/ \E args \in PairArgs(ModuleIds) :
           uncompleteHideoutLevel(Value(args[1]), Value(args[2]))
    \/ \E args \in PairArgs(ProjectIds), now \in Timestamps :
           completeProjectPhase(Value(args[1]), Value(args[2]), now)
    \/ \E args \in PairArgs(ProjectIds) :
           uncompleteProjectPhase(Value(args[1]), Value(args[2]))
    \/ reset

SpecStore == InitStore /\ [][NextStore]_vars

\* The progress store driven with the numbers JSON cannot write: levels and
\* phases 0, 1 and Infinity of one module and one project, next to a quest.
NumberArgs == {Arg(0), Arg(1), Infinity}

NextPersist ==
    \/ \E now \in Timestamps : completeQuest("q1", now)
    \/ uncompleteQuest("q1")
    \/ \E level \in NumberArgs, now \in Timestamps :
           completeHideoutLevel("m", Value(level), now)
    \/ \E level \in NumberArgs : uncompleteHideoutLevel("m", Value(level))
    \/ \E phase \in NumberArgs, now \in Timestamps :
           completeProjectPhase("p", Value(phase), now)
    \/ \E phase \in NumberArgs : uncompleteProjectPhase("p", Value(phase))
    \/ reset

SpecPersist == InitStore /\ [][NextPersist]_vars

----------------------------------------------------------------------------
(* Vocabulary of the properties: requirement occurrences of a catalog *)

\* Quantity of an item in a sparse requirement map (a missing key is 0).
QuantityOf(m, item) == IF item \in DOMAIN m THEN m[item] ELSE 0

\* Every quantity of a requirement map is a number, as ItemRequirements
\* (Record<string, number>) declares.
HoldsNumbers(m) == \A k \in DOMAIN m : IsNumber(m[k])

\* Two requirement maps have the same keys and the same numbers.
SameMap(m, expected) ==
    /\ DOMAIN m = DOMAIN expected
    /\ \A k \in DOMAIN m : IsNumber(m[k]) /\ IsNumber(expected[k]) /\ m[k] = expected[k]

\* A collection of a progress snapshot; a snapshot without the collection
\* holds no entry there.
EntriesOf(prog, name) == IF name \in DOMAIN prog THEN prog[name] ELSE EmptyMap

\* A query of the progress store answered true; answered false.
Yes(outcome) == ~outcome.threw /\ outcome.value = TRUE
No(outcome) == ~outcome.threw /\ outcome.value = FALSE

\* An optional requirement list read as "no requirements" when absent.
ListOf(rec, field) == IF field \in DOMAIN rec THEN rec[field] ELSE << >>

Occurrence(kind, i, j, k, id, n, entry) ==
    [kind |-> kind, i |-> i, j |-> j, k |-> k, id |-> id, n |-> n,
     itemId |-> entry.itemId, quantity |-> entry.quantity]

\* One element per requirement entry of a quest: quest i, entry k.
QuestOccurrences(quests) ==
    UNION {{Occurrence("quest", i, 0, k, quests[i].id, 0,
                       ListOf(quests[i], "requiredItemIds")[k]) :
               k \in 1 .. Len(ListOf(quests[i], "requiredItemIds"))} :
           i \in 1 .. Len(quests)}

\* One element per requirement entry of a hideout level: module i, level j, entry k.
HideoutOccurrences(modules) ==
    UNION {UNION {{Occurrence("hideout", i, j, k, modules[i].id, modules[i].levels[j].level,
                              ListOf(modules[i].levels[j], "requirementItemIds")[k]) :
                      k \in 1 .. Len(ListOf(modules[i].levels[j], "requirementItemIds"))} :
                  j \in 1 .. Len(modules[i].levels)} :
           i \in 1 .. Len(modules)}

\* One element per requirement entry of a project phase: project i, phase j, entry k.
ProjectOccurrences(projects) ==
    UNION {UNION {{Occurrence("project", i, j, k, projects[i].id, projects[i].phases[j].phase,
                              ListOf(projects[i].phases[j], "requirementItemIds")[k]) :
                      k \in 1 .. Len(ListOf(projects[i].phases[j], "requirementItemIds"))} :
                  j \in 1 .. Len(projects[i].phases)} :
           i \in 1 .. Len(projects)}

Occurrences(catalog) ==
    QuestOccurrences(catalog.quests)
    \cup HideoutOccurrences(catalog.hideoutModules)
    \cup ProjectOccurrences(catalog.projects)

RECURSIVE SumQuantities(_)
SumQuantities(S) ==
    IF S = {}
    THEN 0
    ELSE LET o == CHOOSE o \in S : TRUE
         IN  o.quantity + SumQuantities(S \ {o})

\* The sparse map that sums a set of occurrences per item.
SumPerItem(S) ==
    [item \in {o.itemId : o \in S} |-> SumQuantities({o \in S : o.itemId = item})]

\* The entity of an occurrence is marked completed in a snapshot: its entry
\* (under the quest id, or under "{id}-{number}") exists with completed = true.
MarkedDone(prog, o) ==
    LET coll == CASE o.kind = "quest" -> EntriesOf(prog, "quests")
                  [] o.kind = "hideout" -> EntriesOf(prog, "hideout")
                  [] o.kind = "project" -> EntriesOf(prog, "projects")
        key == IF o.kind = "quest" THEN o.id ELSE o.id \o "-" \o ToString(o.n)
    IN  key \in DOMAIN coll /\ coll[key].completed = TRUE

\* Every hideout level carries its requirement list, as HideoutModuleLevel requires.
TypedCatalog(catalog) ==
    \A i \in 1 .. Len(catalog.hideoutModules) :
        \A j \in 1 .. Len(catalog.hideoutModules[i].levels) :
            "requirementItemIds" \in DOMAIN catalog.hideoutModules[i].levels[j]

PositiveCatalog(catalog) == \A o \in Occurrences(catalog) : o.quantity > 0

Called(name) == op.name = name

----------------------------------------------------------------------------
(* Properties of the remaining calculator *)

\* C1: calculateRemainingRequirements(total, completed) returns exactly the
\* map whose keys are the keys k of total with total[k] - (completed[k] or 0)
\* greater than 0, each mapped to that difference: an item exactly met or
\* over-completed is omitted, a key only in completed never appears, and an
\* empty total gives the empty map.
C1_RemainingIsPositiveDifference ==
    Called("calculateRemainingRequirements") =>
        /\ ~ret.threw
        /\ DOMAIN ret.value =
               {k \in DOMAIN reqTotal : reqTotal[k] - QuantityOf(reqCompleted, k) > 0}
        /\ \A k \in DOMAIN ret.value :
               ret.value[k] = reqTotal[k] - QuantityOf(reqCompleted, k)
        /\ \A k \in DOMAIN reqCompleted \ DOMAIN reqTotal : k \notin DOMAIN ret.value
        /\ (reqTotal = EmptyMap => ret.value = EmptyMap)

----------------------------------------------------------------------------
(* Properties of the extractors and the aggregator *)

\* C2: for every catalog and every item, calculateItemRequirements(Q, H, P)
\* gives the sum of the item's quantities in aggregateQuestRequirements(Q),
\* aggregateHideoutRequirements(H) and aggregateProjectRequirements(P), an
\* absent key counting as 0, and its key set is the union of the three key
\* sets (it raises exactly when the hideout extractor raises).
C2_TotalIsSumOfThreeSources ==
    Called("calculateItemRequirements") =>
        LET q == aggregateQuestRequirements(gameData.quests)
            h == aggregateHideoutRequirements(gameData.hideoutModules)
            p == aggregateProjectRequirements(gameData.projects)
        IN  IF h.threw
            THEN ret.threw
            ELSE /\ ~ret.threw
                 /\ DOMAIN ret.value = DOMAIN q \cup DOMAIN h.value \cup DOMAIN p
                 /\ HoldsNumbers(ret.value) /\ HoldsNumbers(q)
                 /\ HoldsNumbers(h.value) /\ HoldsNumbers(p)
                 /\ \A item \in Items \cup DOMAIN ret.value :
                        QuantityOf(ret.value, item) =
                            QuantityOf(q, item) + QuantityOf(h.value, item)
                            + QuantityOf(p, item)

\* C8: each extractor reads an absent optional requirement list as "no
\* requirements": a quest without requiredItemIds, a hideout level without
\* requirementItemIds and a project phase without requirementItemIds
\* contribute nothing and raise no error; an empty input gives the empty map.
C8_AbsentListsContributeNothing ==
    /\ Called("aggregateQuestRequirements") =>
           /\ ~ret.threw
           /\ SameMap(ret.value, SumPerItem(QuestOccurrences(gameData.quests)))
    /\ Called("aggregateHideoutRequirements") =>
           /\ ~ret.threw
           /\ SameMap(ret.value, SumPerItem(HideoutOccurrences(gameData.hideoutModules)))
    /\ Called("aggregateProjectRequirements") =>
           /\ ~ret.threw
           /\ SameMap(ret.value, SumPerItem(ProjectOccurrences(gameData.projects)))

\* C9: aggregateHideoutRequirements sums the entries of every level of every
\* module: for each item the result is the sum of its quantities over all
\* (module, level) pairs, and a module without levels contributes nothing.
C9_HideoutSumsEveryLevel ==
    (Called("aggregateHideoutRequirements") /\ TypedCatalog(gameData)) =>
        /\ ~ret.threw
        /\ SameMap(ret.value, SumPerItem(HideoutOccurrences(gameData.hideoutModules)))

----------------------------------------------------------------------------
(* Properties of the completed calculator and of the pipeline *)

\* C3: for a catalog with positive quantities and any snapshot, the
\* remaining map of the pipeline total -> completed -> remaining gives, for
\* every item, the sum of its quantities over exactly the quests, hideout
\* levels and project phases not marked completed, and omits the item when
\* every entity requiring it is completed.
C3_RemainingIsSumOverUncompleted ==
    (Called("calculate") /\ TypedCatalog(gameData) /\ PositiveCatalog(gameData)) =>
        SameMap(remaining,
                SumPerItem({o \in Occurrences(gameData) : ~MarkedDone(progress, o)}))

\* The part of the completed map that the completed quests account for.
CompletedQuestPart ==
    SumPerItem({o \in QuestOccurrences(gameData.quests) : MarkedDone(progress, o)})

\* The part for completed hideout levels and, likewise, for project phases.
CompletedHideoutPart ==
    SumPerItem({o \in HideoutOccurrences(gameData.hideoutModules) : MarkedDone(progress, o)})

CompletedProjectPart ==
    SumPerItem({o \in ProjectOccurrences(gameData.projects) : MarkedDone(progress, o)})

\* The completed map of the same catalog under a changed snapshot.
CompletedUnder(prog) ==
    calculateCompletedRequirements(prog, gameData.quests, gameData.hideoutModules,
                                   gameData.projects).value

\* C4: a quest's entries are counted in calculateCompletedRequirements if and
\* only if progress.quests[quest.id] exists with completed = true; an absent
\* quest or one stored with completed = false contributes nothing, and the
\* entries of several completed quests for one item are summed.
C4_QuestsCountedIffCompleted ==
    Called("calculateCompletedRequirements") =>
        LET others == CompletedUnder([progress EXCEPT !.quests = EmptyMap])
        IN  /\ ~ret.threw
            /\ DOMAIN ret.value = DOMAIN others \cup DOMAIN CompletedQuestPart
            /\ HoldsNumbers(ret.value) /\ HoldsNumbers(others)
            /\ \A item \in DOMAIN ret.value :
                   ret.value[item] =
                       QuantityOf(others, item) + QuantityOf(CompletedQuestPart, item)
            /\ (progress.hideout = EmptyMap /\ progress.projects = EmptyMap)
                   => SameMap(ret.value, CompletedQuestPart)

\* C5: the entries of hideout level (m, l) are counted if and only if
\* progress.hideout[getHideoutKey(m.id, l)] has completed = true, and those
\* of project phase (p, n) if and only if progress.projects[getProjectKey(p.id, n)]
\* has completed = true; each level and phase is decided on its own, so a
\* completed level 2 counts without level 1 and an uncompleted level never
\* counts because of another level.
C5_LevelsAndPhasesCountedIndependently ==
    Called("calculateCompletedRequirements") =>
        LET questsOnly == CompletedUnder([progress EXCEPT !.hideout = EmptyMap,
                                                         !.projects = EmptyMap])
        IN  /\ ~ret.threw
            /\ DOMAIN ret.value = DOMAIN questsOnly \cup DOMAIN CompletedHideoutPart
                                  \cup DOMAIN CompletedProjectPart
            /\ HoldsNumbers(ret.value) /\ HoldsNumbers(questsOnly)
            /\ \A item \in DOMAIN ret.value :
                   ret.value[item] =
                       QuantityOf(questsOnly, item) + QuantityOf(CompletedHideoutPart, item)
                       + QuantityOf(CompletedProjectPart, item)
            /\ progress.quests = EmptyMap =>
                   \A item \in Items :
                       QuantityOf(ret.value, item) =
                           QuantityOf(CompletedHideoutPart, item)
                           + QuantityOf(CompletedProjectPart, item)

\* C7: every key of a requirement map produced by the core (total, completed,
\* remaining) has a quantity greater than 0, for any catalog with
\* non-negative integer quantities and any snapshot.
C7_PresentKeysArePositive ==
    (Called("calculate") /\ ~ret.threw) =>
        /\ \A k \in DOMAIN total : Positive(total[k])
        /\ \A k \in DOMAIN completed : Positive(completed[k])
        /\ \A k \in DOMAIN remaining : Positive(remaining[k])

\* A phase that carries only the category-value map.
CategoryOnly(phase) ==
    "requirementCategories" \in DOMAIN phase /\ "requirementItemIds" \notin DOMAIN phase

KeepsItemPhases(phase) == ~CategoryOnly(phase)

\* The projects with every category-only phase taken out.
WithoutCategoryPhases(projects) ==
    [i \in 1 .. Len(projects) |->
        [projects[i] EXCEPT !.phases = SelectSeq(@, KeepsItemPhases)]]

\* C10: a project phase that carries only requirementCategories contributes
\* nothing to the total, completed (even when the phase is marked completed)
\* and remaining maps, and no category name appears as an item key.
C10_CategoryPhasesContributeNothing ==
    (Called("calculate") /\ ~ret.threw) =>
        LET stripped == WithoutCategoryPhases(gameData.projects)
            t == calculateItemRequirements(gameData.quests, gameData.hideoutModules,
                                           stripped).value
            c == calculateCompletedRequirements(progress, gameData.quests,
                                                gameData.hideoutModules, stripped).value
        IN  /\ total = t
            /\ completed = c
            /\ remaining = calculateRemainingRequirements(t, c)
            /\ \A name \in DOMAIN CategoryRequirements :
                   /\ name \notin DOMAIN total
                   /\ name \notin DOMAIN completed
                   /\ name \notin DOMAIN remaining

\* The pipeline has run on a project with a category-only phase that is
\* marked completed, next to a phase with item requirements.
C10_Witness ==
    /\ Called("calculate")
    /\ ~ret.threw
    /\ total # EmptyMap
    /\ \E i \in 1 .. Len(gameData.projects) :
          \E j \in 1 .. Len(gameData.projects[i].phases) :
              LET phase == gameData.projects[i].phases[j]
                  key == gameData.projects[i].id \o "-" \o ToString(phase.phase)
              IN  /\ CategoryOnly(phase)
                  /\ key \in DOMAIN progress.projects
                  /\ progress.projects[key].completed

----------------------------------------------------------------------------
(* The progress store and the completed calculator together *)

\* The completed calculator, run on the store's progress, counts the entries
\* of a quest, level or phase: the item only that entity requires is a key.
Counted(kind, id, n) ==
    LET c == calculateCompletedRequirements(progress, gameData.quests,
                                            gameData.hideoutModules, gameData.projects)
    IN  ~c.threw /\ ProbeItem(kind, id, n) \in DOMAIN c.value

\* The store holds a completed hideout entry whose fields name (moduleId, level).
HoldsLevel(moduleId, level) ==
    \E k \in DOMAIN EntriesOf(progress, "hideout") :
        /\ progress.hideout[k].moduleId = moduleId
        /\ progress.hideout[k].level = level
        /\ progress.hideout[k].completed

\* The store holds a completed project entry whose fields name (projectId, phase).
HoldsPhase(projectId, phase) ==
    \E k \in DOMAIN EntriesOf(progress, "projects") :
        /\ progress.projects[k].projectId = projectId
        /\ progress.projects[k].phase = phase
        /\ progress.projects[k].completed

\* C6: the store and the calculator agree on identity: after
\* completeHideoutLevel(m, l) with l > 0 the calculator run on the store's
\* progress counts the entries of level l of module m, after
\* uncompleteHideoutLevel(m, l) it does not, and it counts a level exactly
\* when the store holds it as completed (no other level); likewise for
\* completeProjectPhase / uncompleteProjectPhase and phases.
C6_StoreAndCalculatorAgreeOnIdentity ==
    /\ \A m \in ModuleIds, l \in Levels :
          /\ op = Applied("completeHideoutLevel", m, l) => Counted("hideout", m, l)
          /\ op = Applied("uncompleteHideoutLevel", m, l) => ~Counted("hideout", m, l)
          /\ Counted("hideout", m, l) <=> HoldsLevel(m, l)
    /\ \A p \in ProjectIds, n \in Levels :
          /\ op = Applied("completeProjectPhase", p, n) => Counted("project", p, n)
          /\ op = Applied("uncompleteProjectPhase", p, n) => ~Counted("project", p, n)
          /\ Counted("project", p, n) <=> HoldsPhase(p, n)

\* completeHideoutLevel("m-1", 2) has just run while level 1 of that module
\* and the levels of module "m" are not completed: only that level is counted.
C6_Witness ==
    /\ op = Applied("completeHideoutLevel", "m-1", 2)
    /\ Counted("hideout", "m-1", 2)
    /\ ~Counted("hideout", "m-1", 1)
    /\ ~Counted("hideout", "m", 1)
    /\ ~Counted("hideout", "m", 2)
    /\ Counted("project", "p", 1)

----------------------------------------------------------------------------
(* The quest extractor over a concatenation *)

\* merge: the per-key sum of two requirement maps.
merge(x, y) ==
    [k \in DOMAIN x \cup DOMAIN y |-> QuantityOf(x, k) + QuantityOf(y, k)]

\* The first n quests of a list, and the others.
Front(quests, n) == SubSeq(quests, 1, n)
Back(quests, n) == SubSeq(quests, n + 1, Len(quests))

\* C11: the quest extractor is additive over concatenation: for every way of
\* cutting the quest list into a list A followed by a list B, what
\* aggregateQuestRequirements returned for the whole list is the per-key sum
\* of what it returns for A and for B, whether or not A and B require the
\* same items.
C11_QuestExtractorIsAdditive ==
    Called("aggregateQuestRequirements") =>
        \A n \in 0 .. Len(gameData.quests) :
            LET front == aggregateQuestRequirements(Front(gameData.quests, n))
                back == aggregateQuestRequirements(Back(gameData.quests, n))
            IN  /\ ~ret.threw
                /\ HoldsNumbers(front) /\ HoldsNumbers(back)
                /\ SameMap(ret.value, merge(front, back))

----------------------------------------------------------------------------
(* Nothing completed *)

\* C12: when nothing is completed, remaining equals total: a calculate call
\* whose completed map is {} handed (total, {}) to
\* calculateRemainingRequirements and caches a map equal to total, with the
\* same keys and the same quantities.
C12_NothingCompletedRemainingIsTotal ==
    (Called("calculate") /\ ~ret.threw /\ completed = EmptyMap) =>
        SameMap(remaining, total)

----------------------------------------------------------------------------
(* Progress that matches nothing *)

\* The keys under which the entities of the catalog are looked up.
KnownQuestKeys == {gameData.quests[i].id : i \in 1 .. Len(gameData.quests)}

KnownHideoutKeys ==
    UNION {{gameData.hideoutModules[i].id \o "-"
                \o ToString(gameData.hideoutModules[i].levels[j].level) :
               j \in 1 .. Len(gameData.hideoutModules[i].levels)} :
           i \in 1 .. Len(gameData.hideoutModules)}

KnownProjectKeys ==
    UNION {{gameData.projects[i].id \o "-" \o ToString(gameData.projects[i].phases[j].phase) :
               j \in 1 .. Len(gameData.projects[i].phases)} :
           i \in 1 .. Len(gameData.projects)}

Restrict(collection, keys) == [k \in DOMAIN collection \cap keys |-> collection[k]]

\* The snapshot without the entries whose key names nothing of the catalog.
KnownOnly(prog) ==
    [quests |-> Restrict(prog.quests, KnownQuestKeys),
     hideout |-> Restrict(prog.hideout, KnownHideoutKeys),
     projects |-> Restrict(prog.projects, KnownProjectKeys)]

\* The requirement entries of the catalog whose entity the snapshot marks completed.
DoneOccurrences == {o \in Occurrences(gameData) : MarkedDone(progress, o)}

\* A progress entry marked completed under a key that names nothing of the catalog.
UnknownCompleted(collection, known) ==
    \E k \in DOMAIN collection \ known : collection[k].completed = TRUE

\* A quest, level or phase of the catalog that the snapshot marks completed
\* and that has no requirement entry (list absent or empty).
CompletedWithoutEntries ==
    \/ \E i \in 1 .. Len(gameData.quests) :
          /\ MarkedCompleted(progress.quests, gameData.quests[i].id)
          /\ ListOf(gameData.quests[i], "requiredItemIds") = << >>
    \/ \E i \in 1 .. Len(gameData.hideoutModules) :
          \E j \in 1 .. Len(gameData.hideoutModules[i].levels) :
             LET level == gameData.hideoutModules[i].levels[j]
             IN  /\ MarkedCompleted(progress.hideout,
                                    gameData.hideoutModules[i].id \o "-" \o ToString(level.level))
                 /\ ListOf(level, "requirementItemIds") = << >>
    \/ \E i \in 1 .. Len(gameData.projects) :
          \E j \in 1 .. Len(gameData.projects[i].phases) :
             LET phase == gameData.projects[i].phases[j]
             IN  /\ MarkedCompleted(progress.projects,
                                    gameData.projects[i].id \o "-" \o ToString(phase.phase))
                 /\ ListOf(phase, "requirementItemIds") = << >>

\* C13: calculateCompletedRequirements never raises; progress entries under
\* keys that name no quest, hideout level or project phase of the catalog
\* match nothing (the result is the one for the snapshot without them), and
\* a completed entity without requirement entries contributes nothing (every
\* key of the result is an item of an entry of a completed entity, so the
\* result is empty when no completed entity has an entry).
C13_NoMatchContributesNothing ==
    Called("calculateCompletedRequirements") =>
        /\ ~ret.threw
        /\ ret.value = CompletedUnder(KnownOnly(progress))
        /\ DOMAIN ret.value = {o.itemId : o \in DoneOccurrences}
        /\ (DoneOccurrences = {} => ret.value = EmptyMap)

\* The calculator has run on a snapshot that marks completed both a hideout
\* key unknown to the catalog and a level of the catalog that has no
\* requirement list: it returned the empty map.
C13_Witness ==
    /\ Called("calculateCompletedRequirements")
    /\ UnknownCompleted(progress.hideout, KnownHideoutKeys)
    /\ CompletedWithoutEntries
    /\ \E i \in 1 .. Len(gameData.hideoutModules) :
          \E j \in 1 .. Len(gameData.hideoutModules[i].levels) :
             Lacks(gameData.hideoutModules[i].levels[j], "requirementItemIds")
    /\ ~ret.threw
    /\ ret.value = EmptyMap

----------------------------------------------------------------------------
(* The derived store called directly *)

\* The catalogs and snapshots calculate is called with: one quest, with or
\* without a hideout level that lacks its list; the quest completed or not.
DerivedCatalogs ==
    {Catalog(<<q>>, h, << >>) :
        q \in QuestsWithId("q1"), h \in {<< >>, <<Module("m", <<[level |-> 1]>>)>>}}

DerivedSnapshots == {Snapshot(c, EmptyMap, EmptyMap) : c \in QuestCollections({"q1"})}

\* The item ids a reader asks for: the items of the catalogs and an unknown one.
ItemArgs == Items \cup {"zzz"}

\* calculate(data, prog) called by a client of the store.
Recalculate(data, prog) ==
    /\ gameData' = data
    /\ progress' = prog
    /\ calculateOn(data, prog)
    /\ UNCHANGED <<reqTotal, reqCompleted, lastDeps, localStorage, progressRef, kept, loader, request, callVars>>

CallGetQuantityNeeded(itemId) ==
    /\ op' = Applied("getQuantityNeeded", itemId, 0)
    /\ ret' = Ok(getQuantityNeeded(itemId))
    /\ UNCHANGED <<total, completed>>
    /\ CallFrame

InitDerived ==
    /\ gameData = Null
    /\ progress = initialState
    /\ reqTotal = EmptyMap /\ reqCompleted = EmptyMap
    /\ total = Null /\ completed = Null /\ remaining = Null
    /\ op = NotApplied
    /\ ret = Ok(EmptyMap)
    /\ NothingCached
    /\ NothingStored

NextDerived ==
    \/ \E data \in DerivedCatalogs \cup {Null}, prog \in DerivedSnapshots :
           Recalculate(data, prog)
    \/ \E itemId \in ItemArgs : CallGetQuantityNeeded(itemId)

SpecDerived == InitDerived /\ [][NextDerived]_vars

\* C14: a calculate call with gameData = null returns normally and leaves
\* the cached remaining map null, whatever the store held before the call,
\* a map computed by an earlier call included.
C14_NullCatalogClearsCache ==
    (Called("calculate") /\ gameData = Null) =>
        /\ ~ret.threw
        /\ remaining = Null

\* calculate(null, progress) has replaced a cached map that held a quantity.
C14_Witness ==
    /\ Called("calculate")
    /\ gameData = Null
    /\ remaining = Null
    /\ previous # Null
    /\ previous # EmptyMap

\* What calculate caches for a catalog and a snapshot, by its own three
\* calls; there is no such map when one of them raises.
RemainingOf(data, prog) ==
    LET totalReqs == calculateItemRequirements(data.quests, data.hideoutModules,
                                               data.projects)
        completedReqs == calculateCompletedRequirements(prog, data.quests,
                                                        data.hideoutModules, data.projects)
    IN  IF totalReqs.threw \/ completedReqs.threw
        THEN TypeError
        ELSE Ok(calculateRemainingRequirements(totalReqs.value, completedReqs.value))

\* C15: after any sequence of calculate calls the cached map is
\* calculateRemainingRequirements(total, completed) of the catalog and the
\* progress of the most recent call alone, whatever was cached before; and a
\* second call with the same catalog and progress leaves the same map.
C15_CacheIsOfLastCallOnly ==
    /\ []((Called("calculate") /\ gameData # Null) =>
              /\ ~RemainingOf(gameData, progress).threw
              /\ remaining = RemainingOf(gameData, progress).value)
    /\ [][(/\ op.name = "calculate"
           /\ op'.name = "calculate"
           /\ gameData' = gameData
           /\ progress' = progress) => remaining' = remaining]_vars

\* C16: getQuantityNeeded(itemId) returns the cached quantity of itemId when
\* itemId is a key of the cached map and 0 otherwise (item not in the map,
\* or cache null); it does not raise and the number is never negative.
C16_QuantityNeededOrZero ==
    \A itemId \in ItemArgs :
        op = Applied("getQuantityNeeded", itemId, 0) =>
            /\ ~ret.threw
            /\ IsNumber(ret.value)
            /\ ret.value >= 0
            /\ (remaining = Null => ret.value = 0)
            /\ (remaining # Null /\ itemId \notin DOMAIN remaining => ret.value = 0)
            /\ (remaining # Null /\ itemId \in DOMAIN remaining =>
                    ret.value = remaining[itemId] /\ ret.value > 0)

----------------------------------------------------------------------------
(* hooks/useSyncRemainingRequirements.ts: the derived store follows its inputs *)

\* The dependency list [data, progress] of the current render: React
\* compares each dependency with Object.is, so the progress is there as the
\* object it is (the catalog is set once, as a value it tells as much).
Deps == [data |-> gameData, progress |-> progressRef]

\* What is left of the hook once its effect raised: an error in an effect
\* that no error boundary catches unmounts the component tree.
Unmounted == [unmounted |-> TRUE]

\* setData({ ... }) of the game-data provider: the catalog finished loading.
LoadFinished ==
    /\ gameData = Null
    /\ gameData' = ProbeCatalog
    /\ op' = Applied("setData", "", 0)
    /\ UNCHANGED <<progress, reqTotal, reqCompleted, total, completed, remaining, ret,
                   previous, lastDeps, localStorage, progressRef, kept, loader, request, callVars>>

\* The dependency list with `data` alone.
EffectDue_OnDataOnly ==
    /\ lastDeps # Unmounted
    /\ kept = Null
    /\ (IF lastDeps = Null THEN TRUE ELSE lastDeps.data # gameData)

\* [data, progress, calculate]: the hook renders after mount and after a
\* change of the catalog or the progress object, and its effect is due when a
\* dependency differs from the one of the render before (`calculate` is a
\* stable reference of the store).  React runs the effect a render left
\* before it renders again, so the render before is the one the effect last
\* ran with.
EffectDue == lastDeps # Unmounted /\ kept = Null /\ lastDeps # Deps

\* The function component runs: `const { data } = useGameData()`,
\* `const progress = useProgressStore(...)`, and useEffect is handed a
\* closure over this render's data and progress, which React keeps to run
\* after the commit.
Kept == [data |-> gameData, progress |-> progress, deps |-> Deps]

Render ==
    /\ EffectDue
    /\ kept' = Kept
    /\ UNCHANGED <<gameData, progress, reqTotal, reqCompleted, total, completed,
                   remaining, op, ret, previous, lastDeps, localStorage, progressRef,
                   loader, request, callVars>>

\* useEffect(() => { calculate(data, progress) }, [data, progress, calculate]):
\* the kept effect runs, with the data and progress of the render that kept it.
SyncEffect ==
    /\ kept # Null
    /\ calculateOn(kept.data, kept.progress)
    /\ lastDeps' = IF ret'.threw THEN Unmounted ELSE kept.deps
    /\ kept' = Null
    /\ UNCHANGED <<gameData, progress, reqTotal, reqCompleted, callVars, localStorage,
                   progressRef, loader, request>>

InitSync ==
    /\ gameData = Null
    /\ StoreCreated
    /\ reqTotal = EmptyMap /\ reqCompleted = EmptyMap
    /\ total = Null /\ completed = Null /\ remaining = Null
    /\ op = NotApplied
    /\ ret = Ok(EmptyMap)
    /\ NothingCached

\* The user completes and uncompletes quest q1, level 1 of module m and
\* phase 1 of project p, and resets, while the catalog loads and the effect runs.
NextSync ==
    \/ LoadFinished
    \/ Render
    \/ SyncEffect
    \/ \E now \in Timestamps : completeQuest("q1", now)
    \/ uncompleteQuest("q1")
    \/ \E now \in Timestamps : completeHideoutLevel("m", 1, now)
    \/ uncompleteHideoutLevel("m", 1)
    \/ \E now \in Timestamps : completeProjectPhase("p", 1, now)
    \/ uncompleteProjectPhase("p", 1)
    \/ reset

\* A step in which the hook renders and one in which the kept effect runs,
\* told by what they record: the steps of Render are the only steps of
\* NextSync that set kept, those of SyncEffect the only ones that clear it.
RenderRuns ==
    /\ EffectDue
    /\ kept' = Kept

EffectRuns ==
    /\ kept # Null
    /\ kept' = Null

\* React renders a component whose inputs changed and runs an effect it
\* keeps: neither is postponed forever.
SpecSync ==
    InitSync /\ [][NextSync]_vars /\ WF_kept(RenderRuns) /\ WF_kept(EffectRuns)

\* The remaining map of a catalog and a snapshot: per item, the sum of the
\* entries of the entities not marked completed, items with nothing left
\* omitted; null while there is no catalog.
ExpectedRemaining(data, prog) ==
    IF data = Null
    THEN Null
    ELSE LET left == SumPerItem({o \in Occurrences(data) : ~MarkedDone(prog, o)})
         IN  [k \in {i \in DOMAIN left : left[i] > 0} |-> left[k]]

\* The effect has not yet run with the current catalog and progress.
SyncPending == lastDeps # Deps

\* A step that changes neither the catalog nor the progress.
NoChange == UNCHANGED <<gameData, progress, progressRef>>

\* C17: the derived store follows its two inputs: after the catalog has
\* finished loading or the progress snapshot has changed, the sync effect
\* eventually calls calculate with the current catalog and progress, so that
\* once no further change occurs the effect has run for the current inputs
\* and stays so; and whenever it has run for the current inputs the cached
\* map is the remaining map of the current catalog and progress (null
\* without catalog).
C17_DerivedStoreFollowsInputs ==
    /\ (<>[][NoChange]_vars) => <>[](~SyncPending)
    /\ [](~SyncPending => remaining = ExpectedRemaining(gameData, progress))

\* The catalog is loaded, quest q1 and level 1 of module m were completed,
\* and the effect has caught up: their items are gone from the cached map,
\* those of quest q2 are still there.
C17_Witness ==
    /\ ~SyncPending
    /\ Called("calculate")
    /\ gameData = ProbeCatalog
    /\ MarkedCompleted(progress.quests, "q1")
    /\ MarkedCompleted(progress.hideout, "m-1")
    /\ previous # Null
    /\ ProbeItem("quest", "q1", 0) \notin DOMAIN remaining
    /\ ProbeItem("hideout", "m", 1) \notin DOMAIN remaining
    /\ ProbeItem("quest", "q2", 0) \in DOMAIN remaining

----------------------------------------------------------------------------
(* calculate statement by statement, with readers in between *)

\* JavaScript runs calculate to completion; here a reader may run between any
\* two statements, which only adds behaviours to those of the code.

\* calculate(data, prog) is entered: `if (!gameData) { set({ remaining: null }); return }`
BeginCalculate(data, prog) ==
    /\ pc = "idle"
    /\ gameData' = data
    /\ progress' = prog
    /\ op' = Applied("calculate", "", 0)
    /\ ret' = Ok(EmptyMap)
    /\ total' = Null
    /\ completed' = Null
    /\ building' = EmptyMap
    /\ todo' = {}
    /\ IF data = Null
       THEN /\ remaining' = Null
            /\ previous' = remaining
            /\ pc' = "idle"
       ELSE /\ pc' = "total"
            /\ UNCHANGED <<remaining, previous>>
    /\ UNCHANGED <<reqTotal, reqCompleted, lastDeps, localStorage, progressRef, kept, loader, request>>

\* const total = calculateItemRequirements(...): a TypeError ends the call.
StepTotal ==
    /\ pc = "total"
    /\ LET t == calculateItemRequirements(gameData.quests, gameData.hideoutModules,
                                          gameData.projects)
       IN  IF t.threw
           THEN /\ ret' = TypeError
                /\ pc' = "idle"
                /\ UNCHANGED total
           ELSE /\ total' = t.value
                /\ pc' = "completed"
                /\ UNCHANGED ret
    /\ UNCHANGED <<gameData, progress, reqTotal, reqCompleted, completed, remaining, op,
                   previous, lastDeps, localStorage, progressRef, kept, loader, request, building, todo>>

\* const completed = calculateCompletedRequirements(...), and
\* calculateRemainingRequirements is entered: const remaining = {}
StepCompleted ==
    /\ pc = "completed"
    /\ LET c == calculateCompletedRequirements(progress, gameData.quests,
                                               gameData.hideoutModules,
                                               gameData.projects)
       IN  IF c.threw
           THEN /\ ret' = TypeError
                /\ pc' = "idle"
                /\ UNCHANGED <<completed, building, todo>>
           ELSE /\ completed' = c.value
                /\ building' = EmptyMap
                /\ todo' = DOMAIN total
                /\ pc' = "loop"
                /\ UNCHANGED ret
    /\ UNCHANGED <<gameData, progress, reqTotal, reqCompleted, total, remaining, op,
                   previous, lastDeps, localStorage, progressRef, kept, loader, request>>

\* The loop writing every visited key straight into the store.
StepLoop_WritesThrough ==
    /\ pc = "loop"
    /\ \E itemId \in todo :
          LET quantity == remainingQuantity(total, completed, itemId)
          IN  /\ building' =
                     IF Positive(quantity)
                     THEN Assign(building, itemId, quantity)
                     ELSE building
              /\ todo' = todo \ {itemId}
    /\ remaining' = building'
    /\ previous' = remaining
    /\ UNCHANGED <<gameData, progress, reqTotal, reqCompleted, total, completed, op, ret,
                   lastDeps, localStorage, progressRef, kept, loader, request, pc>>

\* One iteration of `for (const [itemId, totalQuantity] of Object.entries(total))`
\* on the local object; the keys are visited in any order.
StepLoop ==
    /\ pc = "loop"
    /\ \E itemId \in todo :
          LET quantity == remainingQuantity(total, completed, itemId)
          IN  /\ building' =
                     IF Positive(quantity)
                     THEN Assign(building, itemId, quantity)
                     ELSE building
              /\ todo' = todo \ {itemId}
    /\ UNCHANGED <<gameData, progress, reqTotal, reqCompleted, total, completed, remaining,
                   op, ret, previous, lastDeps, localStorage, progressRef, kept, loader, request, pc>>

\* The loop is over: set({ remaining })
StepSet ==
    /\ pc = "loop"
    /\ todo = {}
    /\ remaining' = building
    /\ previous' = remaining
    /\ pc' = "idle"
    /\ UNCHANGED <<gameData, progress, reqTotal, reqCompleted, total, completed, op, ret,
                   lastDeps, localStorage, progressRef, kept, loader, request, building, todo>>

\* A reader takes the cached map: getState().remaining
ReadRemaining ==
    /\ op' = Applied("read", "", 0)
    /\ ret' = Ok(remaining)
    /\ UNCHANGED <<gameData, progress, reqTotal, reqCompleted, total, completed, remaining,
                   previous, lastDeps, localStorage, progressRef, kept, loader, request, callVars>>

InitSteps ==
    /\ gameData = Null
    /\ progress = initialState
    /\ reqTotal = EmptyMap /\ reqCompleted = EmptyMap
    /\ total = Null /\ completed = Null /\ remaining = Null
    /\ op = NotApplied
    /\ ret = Ok(EmptyMap)
    /\ NothingCached
    /\ NothingStored

NextSteps ==
    \/ \E data \in DerivedCatalogs \cup {Null}, prog \in DerivedSnapshots :
           BeginCalculate(data, prog)
    \/ StepTotal
    \/ StepCompleted
    \/ StepLoop
    \/ StepSet
    \/ ReadRemaining

SpecSteps == InitSteps /\ [][NextSteps]_vars

\* C18: the cached map changes only in a step of calculate that publishes
\* (the set() that ends the call), and then to the complete remaining map of the catalog and progress of that
\* call (null without catalog); a reader, at whatever statement a call in
\* progress stands, gets the cached map as the last publishing step left it,
\* never the map under construction, and reading changes nothing.
C18_ReadersSeeCompleteMaps ==
    /\ [][remaining' # remaining =>
             /\ pc \in {"idle", "loop"}
             /\ pc' = "idle"
             /\ todo = {}
             /\ remaining' = IF gameData' = Null
                              THEN Null
                              ELSE RemainingOf(gameData', progress').value]_vars
    /\ [][op'.name = "read" /\ op' # op =>
             /\ ret'.value = remaining
             /\ remaining' = remaining]_vars

\* A reader ran while the loop of a call had filled one key of two: it got
\* the map of the previous call, which is neither the partial map nor empty.
C18_Witness ==
    /\ op.name = "read"
    /\ pc = "loop"
    /\ todo # {}
    /\ building # EmptyMap
    /\ ret.value = remaining
    /\ remaining # Null
    /\ remaining # EmptyMap
    /\ remaining # building

----------------------------------------------------------------------------
(* The composite keys in the progress store *)

DigitChars == <<"0", "1", "2", "3", "4", "5", "6", "7", "8", "9">>

\* The decimal numeral of a natural number.
RECURSIVE Decimal(_)
Decimal(n) ==
    IF n < 10
    THEN DigitChars[n + 1]
    ELSE Decimal(n \div 10) \o DigitChars[(n % 10) + 1]

\* "{id}-{number}"
IdHyphenNumber(id, n) == id \o "-" \o Decimal(n)

\* C19: getHideoutKey and getProjectKey return the id, a hyphen and the
\* decimal number ('gunsmith', 3 gives "gunsmith-3"; 'expedition', 2 gives
\* "expedition-2"), and the progress store stores and looks up under exactly
\* these keys: after completeHideoutLevel(m, l) the entry with moduleId m and
\* level l is at progress.hideout["{m}-{l}"], after completeProjectPhase(p, n)
\* the entry is at progress.projects["{p}-{n}"], every stored entry sits
\* under the key of its own id and number, and the queries read that key.
C19_StoreUsesCompositeKeys ==
    /\ getHideoutKey("gunsmith", 3) = "gunsmith-3"
    /\ getProjectKey("expedition", 2) = "expedition-2"
    /\ \A m \in ModuleIds, l \in Levels :
          LET key == IdHyphenNumber(m, l)
          IN  /\ getHideoutKey(m, l) = key
              /\ op = Applied("completeHideoutLevel", m, l) =>
                     /\ key \in DOMAIN EntriesOf(progress, "hideout")
                     /\ progress.hideout[key].moduleId = m
                     /\ progress.hideout[key].level = l
                     /\ progress.hideout[key].completed = TRUE
              /\ Yes(isHideoutLevelCompleted(m, l)) <=>
                     /\ key \in DOMAIN EntriesOf(progress, "hideout")
                     /\ progress.hideout[key].completed = TRUE
    /\ \A p \in ProjectIds, n \in Levels :
          LET key == IdHyphenNumber(p, n)
          IN  /\ getProjectKey(p, n) = key
              /\ op = Applied("completeProjectPhase", p, n) =>
                     /\ key \in DOMAIN EntriesOf(progress, "projects")
                     /\ progress.projects[key].projectId = p
                     /\ progress.projects[key].phase = n
                     /\ progress.projects[key].completed = TRUE
              /\ Yes(isProjectPhaseCompleted(p, n)) <=>
                     /\ key \in DOMAIN EntriesOf(progress, "projects")
                     /\ progress.projects[key].completed = TRUE
    /\ \A k \in DOMAIN EntriesOf(progress, "hideout") :
          k = IdHyphenNumber(progress.hideout[k].moduleId, progress.hideout[k].level)
    /\ \A k \in DOMAIN EntriesOf(progress, "projects") :
          k = IdHyphenNumber(progress.projects[k].projectId, progress.projects[k].phase)

\* completeHideoutLevel("m-1", 2) has just stored its entry under "m-1-2",
\* next to a project phase stored under "p-1".
C19_Witness ==
    /\ op = Applied("completeHideoutLevel", "m-1", 2)
    /\ "m-1-2" \in DOMAIN EntriesOf(progress, "hideout")
    /\ progress.hideout["m-1-2"].moduleId = "m-1"
    /\ progress.hideout["m-1-2"].level = 2
    /\ "p-1" \in DOMAIN EntriesOf(progress, "projects")

----------------------------------------------------------------------------
(* The queries after any sequence of operations *)

\* The keys a collection holds as completed.
DoneKeys(collection) == {k \in DOMAIN collection : collection[k].completed = TRUE}

\* The completed keys after a step, given those before it: the key of the
\* completing operation joins them, the key of the uncompleting operation
\* leaves them, a reset leaves none, anything else leaves them as they were.
DoneAfter(before, completing, uncompleting, key, valid) ==
    IF op'.name = completing /\ valid THEN before \cup {key}
    ELSE IF op'.name = uncompleting /\ valid THEN before \ {key}
    ELSE IF op'.name = "reset" THEN {}
    ELSE before

\* An argument of a recorded call is a string that is not empty; is a
\* number above 0.
IsId(a) == DOMAIN a = {"string"} /\ a.string # ""
IsPositive(a) == DOMAIN a = {"number"} /\ a.number > 0

\* The key a recorded call with valid arguments works on: the id for a quest
\* operation, "{id}-{number}" for a hideout or project operation.
KeyOfCall(o) ==
    IF ~IsId(o.id) THEN ""
    ELSE IF o.name \in {"completeQuest", "uncompleteQuest"} THEN o.id.string
    ELSE IF IsPositive(o.n) THEN IdHyphenNumber(o.id.string, o.n.number)
    ELSE ""

\* The number of entries a collection holds for one entity.
EntriesFor(collection, field, id) ==
    Cardinality({k \in DOMAIN collection : collection[k][field] = id})

\* C20: after any sequence of completeQuest / uncompleteQuest / reset,
\* isQuestCompleted(id) is true exactly when the most recent operation that
\* affects id was completeQuest(id) (no later uncompleteQuest(id) or reset);
\* it is false for an id never completed; completing an id again leaves it
\* completed with a single entry.  Likewise for isHideoutLevelCompleted and
\* isProjectPhaseCompleted with the hideout-level and project-phase operations.
\* Stated as: a store created without a stored item answers false to every
\* query; each query answers, and answers true exactly for the completed
\* keys; and every step changes the completed keys by the key of its own
\* operation only.
C20_QueriesFollowLastOperation ==
    /\ localStorage = Null =>
          /\ \A q \in QuestIds : No(isQuestCompleted(q))
          /\ \A m \in ModuleIds, l \in Levels : No(isHideoutLevelCompleted(m, l))
          /\ \A p \in ProjectIds, n \in Levels : No(isProjectPhaseCompleted(p, n))
    /\ [](/\ \A q \in QuestIds : ~isQuestCompleted(q).threw
          /\ \A m \in ModuleIds, l \in Levels : ~isHideoutLevelCompleted(m, l).threw
          /\ \A p \in ProjectIds, n \in Levels : ~isProjectPhaseCompleted(p, n).threw
          /\ DoneKeys(EntriesOf(progress, "quests")) \cap QuestIds
                 = {q \in QuestIds : Yes(isQuestCompleted(q))}
          /\ DoneKeys(EntriesOf(progress, "hideout")) =
                 {IdHyphenNumber(e[1], e[2]) :
                     e \in {x \in ModuleIds \X Levels :
                               Yes(isHideoutLevelCompleted(x[1], x[2]))}}
          /\ DoneKeys(EntriesOf(progress, "projects")) =
                 {IdHyphenNumber(e[1], e[2]) :
                     e \in {x \in ProjectIds \X Levels :
                               Yes(isProjectPhaseCompleted(x[1], x[2]))}}
          /\ \A q \in QuestIds :
                EntriesFor(EntriesOf(progress, "quests"), "questId", q)
                    = IF Yes(isQuestCompleted(q)) THEN 1 ELSE 0)
    /\ [][/\ DoneKeys(EntriesOf(progress', "quests")) =
                 DoneAfter(DoneKeys(EntriesOf(progress, "quests")), "completeQuest",
                           "uncompleteQuest", KeyOfCall(op'), IsId(op'.id))
          /\ DoneKeys(EntriesOf(progress', "hideout")) =
                 DoneAfter(DoneKeys(EntriesOf(progress, "hideout")),
                           "completeHideoutLevel", "uncompleteHideoutLevel",
                           KeyOfCall(op'), IsId(op'.id) /\ IsPositive(op'.n))
          /\ DoneKeys(EntriesOf(progress', "projects")) =
                 DoneAfter(DoneKeys(EntriesOf(progress, "projects")),
                           "completeProjectPhase", "uncompleteProjectPhase",
                           KeyOfCall(op'), IsId(op'.id) /\ IsPositive(op'.n))]_vars

\* uncompleteQuest("q1") has just undone a completion while quest q2 and
\* level 1 of module m, completed earlier, stay completed.
C20_Witness ==
    /\ op = Applied("uncompleteQuest", "q1", 0)
    /\ No(isQuestCompleted("q1"))
    /\ Yes(isQuestCompleted("q2"))
    /\ Yes(isHideoutLevelCompleted("m", 1))
    /\ No(isHideoutLevelCompleted("m", 2))
    /\ EntriesFor(progress.quests, "questId", "q2") = 1

----------------------------------------------------------------------------
(* What uncompleting changes *)

\* A collection after the removal of one key: the key is absent, every other
\* key is there exactly when it was, with the entry it had.
RemovedFrom(before, after, key) ==
    /\ key \notin DOMAIN after
    /\ DOMAIN after = DOMAIN before \ {key}
    /\ \A k \in DOMAIN after : after[k] = before[k]

\* C21: uncompleteQuest(id) with a valid id removes the entry of id from
\* progress.quests (the key is absent afterwards, not kept with completed =
\* false) and leaves every other quest entry, the hideout and project
\* collections and the version as they were; when id has no entry the whole
\* progress is unchanged.  uncompleteHideoutLevel and uncompleteProjectPhase
\* do the same on their own collection, under the key of (id, number).
C21_UncompleteRemovesOnlyItsEntry ==
    [][/\ \A q \in QuestIds :
             op' = Applied("uncompleteQuest", q, 0) =>
                 /\ ~ret'.threw
                 /\ RemovedFrom(EntriesOf(progress, "quests"),
                                EntriesOf(progress', "quests"), q)
                 /\ EntriesOf(progress', "hideout") = EntriesOf(progress, "hideout")
                 /\ EntriesOf(progress', "projects") = EntriesOf(progress, "projects")
                 /\ progress'.version = progress.version
                 /\ (q \notin DOMAIN EntriesOf(progress, "quests") => progress' = progress)
       /\ \A m \in ModuleIds, l \in Levels :
             op' = Applied("uncompleteHideoutLevel", m, l) =>
                 /\ ~ret'.threw
                 /\ RemovedFrom(EntriesOf(progress, "hideout"),
                                EntriesOf(progress', "hideout"), IdHyphenNumber(m, l))
                 /\ EntriesOf(progress', "quests") = EntriesOf(progress, "quests")
                 /\ EntriesOf(progress', "projects") = EntriesOf(progress, "projects")
                 /\ progress'.version = progress.version
                 /\ (IdHyphenNumber(m, l) \notin DOMAIN EntriesOf(progress, "hideout")
                        => progress' = progress)
       /\ \A p \in ProjectIds, n \in Levels :
             op' = Applied("uncompleteProjectPhase", p, n) =>
                 /\ ~ret'.threw
                 /\ RemovedFrom(EntriesOf(progress, "projects"),
                                EntriesOf(progress', "projects"), IdHyphenNumber(p, n))
                 /\ EntriesOf(progress', "quests") = EntriesOf(progress, "quests")
                 /\ EntriesOf(progress', "hideout") = EntriesOf(progress, "hideout")
                 /\ progress'.version = progress.version
                 /\ (IdHyphenNumber(p, n) \notin DOMAIN EntriesOf(progress, "projects")
                        => progress' = progress)]_vars

\* uncompleteHideoutLevel("m", 1) has run on a store that still holds the
\* other level of that module, a level of module "m-1", a quest and a phase.
C21_Witness ==
    /\ op = Applied("uncompleteHideoutLevel", "m", 1)
    /\ "m-1" \notin DOMAIN progress.hideout
    /\ "m-2" \in DOMAIN progress.hideout
    /\ "m-1-1" \in DOMAIN progress.hideout
    /\ "q1" \in DOMAIN progress.quests
    /\ "p-1" \in DOMAIN progress.projects
    /\ progress.version = 1

----------------------------------------------------------------------------
(* Invalid arguments *)

\* An id argument that is empty, null or undefined; a level or phase
\* argument that is 0 or negative.
InvalidId(a) == a \in {Arg(""), Null, Undefined}
NotPositive(a) == DOMAIN a = {"number"} /\ a.number <= 0

\* The operation applied last was called with an invalid argument: an empty,
\* null or undefined id, or (for the hideout and project operations) a
\* number that is 0 or negative.
InvalidCall(o) ==
    \/ o.name \in {"completeQuest", "uncompleteQuest"} /\ InvalidId(o.id)
    \/ /\ o.name \in {"completeHideoutLevel", "uncompleteHideoutLevel",
                      "completeProjectPhase", "uncompleteProjectPhase"}
       /\ (InvalidId(o.id) \/ NotPositive(o.n))

\* C22: a progress-store operation called with an invalid argument (an
\* empty, null or undefined id, a level or phase that is 0 or negative)
\* raises nothing and leaves the progress unchanged, no entry created or
\* removed; and the queries answer false for such arguments in every state.
C22_InvalidArgumentsChangeNothing ==
    /\ [](/\ \A q \in IdArgs(QuestIds) :
                InvalidId(q) => No(isQuestCompleted(Value(q)))
          /\ \A args \in PairArgs(ModuleIds) :
                (InvalidId(args[1]) \/ NotPositive(args[2])) =>
                    No(isHideoutLevelCompleted(Value(args[1]), Value(args[2])))
          /\ \A args \in PairArgs(ProjectIds) :
                (InvalidId(args[1]) \/ NotPositive(args[2])) =>
                    No(isProjectPhaseCompleted(Value(args[1]), Value(args[2]))))
    /\ [][InvalidCall(op') => (~ret'.threw /\ progress' = progress)]_vars

\* completeHideoutLevel("m", -1) has been called on a store that holds
\* entries: it holds the same entries, none of them for level -1.
C22_Witness ==
    /\ op = Applied("completeHideoutLevel", "m", -1)
    /\ DOMAIN EntriesOf(progress, "hideout") = {"m-1"}
    /\ DOMAIN EntriesOf(progress, "quests") = {"q1"}
    /\ No(isHideoutLevelCompleted("m", -1))

----------------------------------------------------------------------------
(* Persistence *)

\* The operation applied last is a completeX / uncompleteX with valid arguments.
ValidMutation(o) ==
    \/ o.name \in {"completeQuest", "uncompleteQuest"} /\ IsId(o.id)
    \/ /\ o.name \in {"completeHideoutLevel", "uncompleteHideoutLevel",
                      "completeProjectPhase", "uncompleteProjectPhase"}
       /\ IsId(o.id)
       /\ (IsPositive(o.n) \/ o.n = Infinity)

\* C23: after every mutating operation of the progress store the item
\* 'arc-loot-helper-progress' of localStorage exists and its state.progress
\* equals the progress in memory: the same quests, hideout and projects
\* entries and version 1.  (The item never differs from memory: while no
\* set() has written it the progress is the initial one.)
C23_PersistedProgressEqualsMemory ==
    /\ ValidMutation(op) => localStorage # Null
    /\ localStorage = Null => progress = initialState
    /\ localStorage # Null =>
          /\ "state" \in DOMAIN localStorage
          /\ "progress" \in DOMAIN localStorage.state
          /\ \A name \in {"quests", "hideout", "projects"} :
                EntriesOf(localStorage.state.progress, name) = EntriesOf(progress, name)
          /\ localStorage.state.progress.version = 1
          /\ progress.version = 1

----------------------------------------------------------------------------
(* Over-completion *)

\* Every quantity of every requirement entry of the catalog is at least 0.
NonNegativeCatalog(catalog) == \A o \in Occurrences(catalog) : o.quantity >= 0

\* C25: on a catalog whose requirement quantities are non-negative and any
\* progress snapshot, entries under keys unknown to the catalog included,
\* every item of the completed map is an item of the total map and its
\* completed quantity is at most its total quantity, so the difference that
\* calculateRemainingRequirements clamps at zero is never negative and the
\* cached quantity is the plain difference.
C25_CompletedNeverExceedsTotal ==
    (Called("calculate") /\ ~ret.threw /\ NonNegativeCatalog(gameData)) =>
        /\ HoldsNumbers(total) /\ HoldsNumbers(completed) /\ HoldsNumbers(remaining)
        /\ \A item \in DOMAIN completed :
              /\ item \in DOMAIN total
              /\ completed[item] <= total[item]
        /\ \A item \in DOMAIN total :
              /\ total[item] - QuantityOf(completed, item) >= 0
              /\ QuantityOf(remaining, item) =
                     total[item] - QuantityOf(completed, item)


----------------------------------------------------------------------------
(* The composite key is injective *)

\* Ids that contain hyphens and digits, among them ids that are the key of
\* another id, and positive integers of one and two digits.
KeyIds == {"m", "m-1", "m-1-2", "m1", "m-", "1", "1-1", "p", "p-1"}
KeyNumbers == {1, 2, 3, 10, 11, 12, 21}

\* The argument pairs of a key function that produce a given key.
PairsWithKey(key, keyOf(_, _)) ==
    {pair \in KeyIds \X KeyNumbers : keyOf(pair[1], pair[2]) = key}

KeyIsInjective(keyOf(_, _)) ==
    \A pair \in KeyIds \X KeyNumbers :
        PairsWithKey(keyOf(pair[1], pair[2]), keyOf) = {pair}

HideoutKeyIsInjective == KeyIsInjective(getHideoutKey)
ProjectKeyIsInjective == KeyIsInjective(getProjectKey)

\* The status of every (id, number) other than <<id, n>> is the same in the
\* two collections, read the way the store's queries read it.
OthersKeepStatus(before, after, collectionKey, ids, id, n, keyOf(_, _)) ==
    \A id2 \in ids, n2 \in Levels :
        <<id2, n2>> # <<id, n>> =>
            Yes(isCompleted(after, collectionKey, keyOf(id2, n2)))
                = Yes(isCompleted(before, collectionKey, keyOf(id2, n2)))

\* C26: getHideoutKey and getProjectKey are injective on ids (ids with
\* hyphens and digits included) and positive integers: two argument pairs
\* have the same key only if they are the same pair.  So a
\* completeHideoutLevel or uncompleteHideoutLevel of one (module, level)
\* leaves the completion status of every other (module, level) as it was,
\* and the project operations do the same for every other (project, phase).
C26_CompositeKeyIsInjective ==
    /\ [](HideoutKeyIsInjective /\ ProjectKeyIsInjective)
    /\ [][/\ \A m \in ModuleIds, l \in Levels :
                 (/\ op'.name \in {"completeHideoutLevel", "uncompleteHideoutLevel"}
                  /\ op'.id = Arg(m) /\ op'.n = Arg(l)) =>
                     OthersKeepStatus(progress, progress', "hideout", ModuleIds, m, l,
                                      getHideoutKey)
          /\ \A p \in ProjectIds, n \in Levels :
                 (/\ op'.name \in {"completeProjectPhase", "uncompleteProjectPhase"}
                  /\ op'.id = Arg(p) /\ op'.n = Arg(n)) =>
                     OthersKeepStatus(progress, progress', "projects", ProjectIds, p, n,
                                      getProjectKey)]_vars

\* completeHideoutLevel("m", 1) has run, its key "m-1" being the id of the
\* other module: level 1 of "m" is completed, level 1 of "m-1" and level 2
\* of "m" are not, and level 2 of "m-1" still is.
C26_Witness ==
    /\ op = Applied("completeHideoutLevel", "m", 1)
    /\ Yes(isHideoutLevelCompleted("m", 1))
    /\ No(isHideoutLevelCompleted("m-1", 1))
    /\ No(isHideoutLevelCompleted("m", 2))
    /\ Yes(isHideoutLevelCompleted("m-1", 2))


----------------------------------------------------------------------------
(* What the progress store holds *)

\* Every stored entry has completed = true and a completedAt that is not
\* null; every key of quests is the questId of its entry; every key of
\* hideout (projects) is the key of the moduleId and level (projectId and
\* phase) of its entry, whose number is above 0; and version is 1.
WellFormed(prog) ==
    /\ {"quests", "hideout", "projects", "version"} \subseteq DOMAIN prog
    /\ \A k \in DOMAIN prog.quests :
          LET entry == prog.quests[k]
          IN  /\ entry.completed = TRUE
              /\ entry.completedAt # NoTimestamp
              /\ IsString(entry.questId)
              /\ entry.questId = k
    /\ \A k \in DOMAIN prog.hideout :
          LET entry == prog.hideout[k]
          IN  /\ entry.completed = TRUE
              /\ entry.completedAt # NoTimestamp
              /\ entry.level > 0
              /\ k = getHideoutKey(entry.moduleId, entry.level)
    /\ \A k \in DOMAIN prog.projects :
          LET entry == prog.projects[k]
          IN  /\ entry.completed = TRUE
              /\ entry.completedAt # NoTimestamp
              /\ entry.phase > 0
              /\ k = getProjectKey(entry.projectId, entry.phase)
    /\ prog.version = 1

\* C27: in every state the store reaches from the initial progress, every
\* stored entry has completed = true and a completedAt that is not null;
\* every key of progress.quests is the questId of its entry; every key of
\* progress.hideout is getHideoutKey(moduleId, level) of its entry, whose
\* level is above 0; every key of progress.projects is
\* getProjectKey(projectId, phase) of its entry, whose phase is above 0; and
\* version is 1.  Stated as: the initial progress is such a progress, it is
\* what a store created without a stored item starts from, and no operation
\* of the store leads from such a progress to another kind.
C27_StoredEntriesAreWellFormed ==
    /\ localStorage = Null => (progress = initialState /\ WellFormed(progress))
    /\ [][WellFormed(progress) => WellFormed(progress')]_vars

\* The store holds entries in its three collections after a reset, calls
\* with invalid arguments and an uncomplete happened along the way: the
\* last call, completeProjectPhase("p", 0), was rejected.
C27_Witness ==
    /\ op = Applied("completeProjectPhase", "p", 0)
    /\ WellFormed(progress)
    /\ DOMAIN progress.quests = {"q1", "q2"}
    /\ DOMAIN progress.hideout = {"m-2", "m-1-1"}
    /\ DOMAIN progress.projects = {"p-2"}


----------------------------------------------------------------------------
(* The data loaders: useFetchData, useGameData, GameDataProvider *)

\* A promise that has not settled.
Pending == [pending |-> TRUE]

\* A rejected promise / a thrown value.
Threw(reason) == [threw |-> TRUE, value |-> reason]

\* An Error object, and a thrown value that is not one.
ErrorObject(name, message) == [instanceofError |-> TRUE, name |-> name, message |-> message]
NotAnError(text) == [instanceofError |-> FALSE, text |-> text]

\* Mapping from raw item types to normalized categories.
RAW_TYPE_TO_NORMALIZED ==
    [rawType \in {"Augment", "Shield", "Assault Rifle", "Battle Rifle", "Hand Cannon",
                  "LMG", "Pistol", "Shotgun", "Weapon", "Ammunition", "Modification",
                  "Quick Use", "Key", "Basic Material", "Material", "Refined Material",
                  "Topside Material", "Nature", "Recyclable", "Backpack Charm",
                  "Blueprint", "Cosmetic", "Misc", "Outfit", "Trinket"} |->
        CASE rawType = "Augment" -> "Augments"
          [] rawType = "Shield" -> "Shields"
          [] rawType \in {"Assault Rifle", "Battle Rifle", "Hand Cannon", "LMG",
                          "Pistol", "Shotgun", "Weapon"} -> "Weapons"
          [] rawType = "Ammunition" -> "Ammunition"
          [] rawType = "Modification" -> "Weapon Mods"
          [] rawType = "Quick Use" -> "Quick Use"
          [] rawType = "Key" -> "Keys"
          [] rawType \in {"Basic Material", "Material", "Refined Material",
                          "Topside Material", "Nature", "Recyclable"} -> "Crafting Materials"
          [] OTHER -> "Misc"]

\* RAW_TYPE_TO_NORMALIZED[rawType] || 'Misc': the key is rawType as a string.
normalizeItemType(rawType) ==
    LET category == Get(RAW_TYPE_TO_NORMALIZED, ToJsString(rawType))
    IN  IF Truthy(category) THEN category ELSE "Misc"

\* A parsed JSON body is an array (a body is null, an array or an object).
IsArray(body) == DOMAIN body = {"array"}

\* items.map(item => ({ ...item, category: normalizeItemType(item.type) })):
\* the new array, or the TypeError raised by `items.map` when items is null
\* or no array, and by `item.type` when an element is null.
normalizeItems(rawItems) ==
    IF rawItems = Null
    THEN Threw(ErrorObject("TypeError", "Cannot read properties of null (reading 'map')"))
    ELSE IF ~IsArray(rawItems)
    THEN Threw(ErrorObject("TypeError", "items.map is not a function"))
    ELSE IF \E i \in DOMAIN rawItems.array : rawItems.array[i] = Null
    THEN Threw(ErrorObject("TypeError", "Cannot read properties of null (reading 'type')"))
    ELSE Ok(ArrayOf([i \in DOMAIN rawItems.array |->
                [k \in DOMAIN rawItems.array[i] \cup {"category"} |->
                    IF k = "category"
                    THEN normalizeItemType(Get(rawItems.array[i], "type"))
                    ELSE rawItems.array[i][k]]]))

\* What the network does with a request: a response (its ok flag, status and
\* what response.json() gives), or a rejection of fetch itself.
Response(status, statusText, json) ==
    [rejected |-> FALSE, ok |-> status >= 200 /\ status <= 299, status |-> status,
     statusText |-> statusText, json |-> json]
Rejection(reason) == [rejected |-> TRUE, reason |-> reason]

\* fetchJson(url): the promise it returns, fulfilled with the parsed body or rejected.
fetchJson(url, outcome) ==
    IF outcome.rejected
    THEN Threw(outcome.reason)
    ELSE IF ~outcome.ok
         THEN Threw(ErrorObject("Error",
                  "Failed to fetch " \o url \o ": " \o ToString(outcome.status)
                      \o " " \o outcome.statusText))
         ELSE outcome.json

\* err instanceof Error ? err : new Error(String(err))
toError(err) == IF err.instanceofError THEN err ELSE ErrorObject("Error", err.text)

\* The files of each loader, in the order of its Promise.all.
UrlsOfUseGameData ==
    <<"/data/items.json", "/data/quests.json", "/data/hideoutModules.json",
      "/data/projects.json", "/data/skillNodes.json">>
UrlsOfGameDataProvider == Append(UrlsOfUseGameData, "/data/traders.json")

\* The hooks built on useFetchData that are explored.
UrlsOfUseFetchData == {<<"/data/items.json">>, <<"/data/quests.json">>}

\* The field of the published catalog that each file fills.
FieldOf(url) ==
    CASE url = "/data/items.json" -> "items"
      [] url = "/data/quests.json" -> "quests"
      [] url = "/data/hideoutModules.json" -> "hideoutModules"
      [] url = "/data/projects.json" -> "projects"
      [] url = "/data/skillNodes.json" -> "skillNodes"
      [] url = "/data/traders.json" -> "traders"

Range(seq) == {seq[i] : i \in DOMAIN seq}

\* Promise.all resolving as soon as one promise is fulfilled.
PromiseAll_Any(promises, urls, settled) ==
    IF settled # Pending
    THEN settled
    ELSE IF \E u \in Range(urls) : promises[u] # Pending /\ ~promises[u].threw
         THEN Ok([u \in Range(urls) |->
                     IF promises[u] # Pending /\ ~promises[u].threw
                     THEN promises[u].value ELSE << >>])
         ELSE Pending

\* Promise.all over the fetchJson promises after one more of them settled:
\* it stays as it is once settled, is rejected with the reason of the first
\* promise that rejects, and is fulfilled with all values when all are fulfilled.
PromiseAll(promises, urls, settled) ==
    IF settled # Pending
    THEN settled
    ELSE IF \E u \in Range(urls) : promises[u] # Pending /\ promises[u].threw
         THEN Threw(promises[CHOOSE u \in Range(urls) :
                                 promises[u] # Pending /\ promises[u].threw].value)
         ELSE IF \A u \in Range(urls) : promises[u] # Pending
              THEN Ok([u \in Range(urls) |-> promises[u].value])
              ELSE Pending

\* A value of type T | null that is not null (a list cannot be compared
\* with Null directly).
NonNull(v) == [null |-> FALSE, value |-> v]

\* The statements between the await and the `if (!cancelled)`: useFetchData
\* has none and publishes the body; useGameData and GameDataProvider call
\* normalizeItems(rawItems) and build the object for setData, unless
\* normalizeItems throws.
Published(hook, urls, values) ==
    IF hook = "useFetchData"
    THEN Ok(values[urls[1]])
    ELSE LET items == normalizeItems(values["/data/items.json"])
         IN  IF items.threw
             THEN items
             ELSE Ok([f \in {FieldOf(u) : u \in Range(urls)} |->
                         LET u == CHOOSE u \in Range(urls) : FieldOf(u) = f
                         IN  IF f = "items" THEN items.value ELSE values[u]])

\* What the try block comes to: the rejection the await raised, what
\* normalizeItems threw, or the object to publish.
TryBlock(l) ==
    IF l.all.threw THEN l.all ELSE Published(l.hook, l.urls, l.all.value)

\* if (!cancelled) { setData(published); setLoading(false) }: a body that
\* is null leaves data null.
OnFulfilled(l, published) ==
    IF ~l.cancelled
    THEN [l EXCEPT !.data = IF published = Null THEN Null ELSE NonNull(published),
                   !.loading = FALSE]
    ELSE l

\* The catch block without its `if (!cancelled)`.
OnRejected_Unguarded(l, err) ==
    [l EXCEPT !.error = toError(err), !.loading = FALSE]

\* The catch block.
OnRejected(l, err) ==
    IF ~l.cancelled
    THEN [l EXCEPT !.error = toError(err), !.loading = FALSE]
    ELSE l

\* The hook after its first render: useState(null), useState(true),
\* useState(null); the effect has not run.
Mounted(hook, urls) ==
    [hook |-> hook, urls |-> urls,
     data |-> Null, loading |-> TRUE, error |-> Null,
     cancelled |-> FALSE, at |-> "rendered",
     responses |-> [u \in Range(urls) |-> Pending],
     all |-> Pending]

LoaderFrame ==
    UNCHANGED <<gameData, progress, reqTotal, reqCompleted, total, completed, remaining,
                op, ret, previous, lastDeps, localStorage, progressRef, kept, request, callVars>>

\* The effect: let cancelled = false; loadData() runs up to its await.
RunEffect ==
    /\ loader.at = "rendered"
    /\ loader' = [loader EXCEPT !.cancelled = FALSE, !.loading = TRUE, !.error = Null,
                                !.at = "awaiting"]
    /\ LoaderFrame

\* One request settles; Promise.all settles with it when it is decided.
Respond(url, outcome) ==
    /\ loader.at # "rendered"
    /\ url \in Range(loader.urls)
    /\ loader.responses[url] = Pending
    /\ LET responses == [loader.responses EXCEPT ![url] = outcome]
           promises == [u \in Range(loader.urls) |->
                           IF responses[u] = Pending
                           THEN Pending
                           ELSE fetchJson(u, responses[u])]
       IN  loader' = [loader EXCEPT !.responses = responses,
                                    !.all = PromiseAll(promises, loader.urls, loader.all)]
    /\ LoaderFrame

\* loadData() resumes after its await: the rest of the try block runs, and
\* the catch block when the await or normalizeItems threw.
Resume ==
    /\ loader.at = "awaiting"
    /\ loader.all # Pending
    /\ loader' = [(IF TryBlock(loader).threw
                   THEN OnRejected(loader, TryBlock(loader).value)
                   ELSE OnFulfilled(loader, TryBlock(loader).value))
                  EXCEPT !.at = "done"]
    /\ LoaderFrame

\* The component unmounts: the cleanup of the effect runs.
Unmount ==
    /\ loader.at # "rendered"
    /\ ~loader.cancelled
    /\ loader' = [loader EXCEPT !.cancelled = TRUE]
    /\ LoaderFrame

\* The bodies the files hold, as JSON parses them.  The items file holds an
\* empty list, a list of items (one of them without a type), or a body of
\* another shape: an object, null, a list that holds null.
BodiesOf(url) ==
    CASE url = "/data/items.json" ->
            {ArrayOf(<< >>),
             ArrayOf(<<[id |-> "a", type |-> "Hand Cannon"], [id |-> "b", type |-> "Gadget"],
                       [id |-> "c", type |-> "constructor"], [id |-> "d"]>>),
             [error |-> "down"],
             Null,
             ArrayOf(<<Null>>)}
      [] url = "/data/quests.json" -> {ArrayOf(<<[id |-> "q1"]>>)}
      [] url = "/data/hideoutModules.json" -> {ArrayOf(<<Module("m", << >>)>>)}
      [] url = "/data/projects.json" -> {ArrayOf(<< >>)}
      [] url = "/data/skillNodes.json" -> {ArrayOf(<<[id |-> "s1"]>>)}
      [] url = "/data/traders.json" -> {[Celeste |-> ArrayOf(<< >>)]}

\* What may happen to the request of a file: its body arrives, the server
\* answers 404, the network fails; for the items file also a 500, a body
\* that is not JSON and a rejection with a value that is not an Error.
OutcomesOf(url) ==
    {Response(200, "OK", Ok(body)) : body \in BodiesOf(url)}
    \cup {Response(404, "Not Found", Threw(ErrorObject("SyntaxError", "Unexpected token <"))),
          Rejection(ErrorObject("TypeError", "Failed to fetch"))}
    \cup (IF url = "/data/items.json"
          THEN {Response(500, "Internal Server Error", Ok([error |-> "down"])),
                Response(200, "OK", Threw(ErrorObject("SyntaxError", "Unexpected end of JSON input"))),
                Rejection(NotAnError("offline"))}
          ELSE {})

AllUrls == Range(UrlsOfGameDataProvider)

InitLoader ==
    /\ loader \in {Mounted("useFetchData", urls) : urls \in UrlsOfUseFetchData}
                  \cup {Mounted("useGameData", UrlsOfUseGameData),
                        Mounted("GameDataProvider", UrlsOfGameDataProvider)}
    /\ gameData = Null
    /\ progress = initialState
    /\ reqTotal = EmptyMap /\ reqCompleted = EmptyMap
    /\ total = Null /\ completed = Null /\ remaining = Null
    /\ op = NotApplied
    /\ ret = Ok(EmptyMap)
    /\ previous = Null /\ lastDeps = Null /\ localStorage = Null /\ progressRef = 0 /\ kept = Null /\ request = Null
    /\ pc = "idle" /\ building = EmptyMap /\ todo = {}

NextLoader ==
    \/ RunEffect
    \/ \E url \in AllUrls : \E outcome \in OutcomesOf(url) : Respond(url, outcome)
    \/ Resume
    \/ Unmount

SpecLoader == InitLoader /\ [][NextLoader]_vars


\* The parallel fetch has completed: every request delivered its body.
FetchCompleted ==
    \A u \in Range(loader.urls) :
        loader.responses[u] # Pending /\ ~fetchJson(u, loader.responses[u]).threw

\* The parallel fetch has failed: a request failed or returned a non-OK status.
FetchFailed ==
    \E u \in Range(loader.urls) :
        loader.responses[u] # Pending /\ fetchJson(u, loader.responses[u]).threw

StartingState ==
    /\ loader.loading = TRUE
    /\ loader.error = Null
    /\ loader.data = Null

\* C24: a loader (useFetchData, useGameData, GameDataProvider) starts with
\* loading = true, error = null and data = null, and is in that state for as
\* long as its parallel fetch has neither completed (every file delivered)
\* nor failed (one request failed).
C24_LoadingUntilFetchSettles ==
    ~(FetchCompleted \/ FetchFailed) => StartingState

\* useGameData is waiting: four of its five files have arrived, the fifth is
\* outstanding, and it still reports loading without data or error.
C24_Witness ==
    /\ loader.hook = "useGameData"
    /\ loader.at = "awaiting"
    /\ Cardinality({u \in Range(loader.urls) : loader.responses[u] # Pending}) = 4
    /\ ~FetchFailed
    /\ StartingState


----------------------------------------------------------------------------
(* One outcome of a load *)

\* The catalog made of the bodies that arrived: every field of the loader
\* present, the items normalized.
WholeCatalog ==
    Published(loader.hook, loader.urls,
              [u \in Range(loader.urls) |-> loader.responses[u].json.value]).value

\* The error a failed request raises in fetchJson: the rejection of fetch,
\* "Failed to fetch {url}: {status} {statusText}" for a non-OK response, or
\* what response.json() raised.
FailureOf(u) ==
    LET outcome == loader.responses[u]
    IN  IF outcome.rejected
        THEN IF outcome.reason.instanceofError
             THEN outcome.reason
             ELSE ErrorObject("Error", outcome.reason.text)
        ELSE IF outcome.status < 200 \/ outcome.status > 299
             THEN ErrorObject("Error", "Failed to fetch " \o u \o ": "
                                 \o Decimal(outcome.status) \o " " \o outcome.statusText)
             ELSE outcome.json.value

\* A request that did not deliver a body.
Failed(u) ==
    /\ loader.responses[u] # Pending
    /\ \/ loader.responses[u].rejected
       \/ ~loader.responses[u].ok
       \/ loader.responses[u].json.threw

Succeeded(u) == loader.responses[u] # Pending /\ ~Failed(u)

LoadSucceeded ==
    /\ \A u \in Range(loader.urls) : Succeeded(u)
    /\ loader.data = NonNull(WholeCatalog)
    /\ loader.error = Null

LoadFailed ==
    /\ \E u \in Range(loader.urls) : Failed(u) /\ loader.error = FailureOf(u)
    /\ loader.data = Null

\* C28: data and error are never both non-null.  loading = false holds only
\* after exactly one outcome: success, with every request succeeded, data
\* the whole catalog (every list of the loader, nothing missing) and error
\* null; or failure, with a request that failed or was answered non-OK,
\* error set to its error and data null.  While the loader is mounted, the
\* code after the await ends in success when all requests succeeded and in
\* failure as soon as one failed, other requests still outstanding or not.
\* data is never a catalog with a part missing.
C28_ExactlyOneOutcome ==
    /\ ~(loader.data # Null /\ loader.error # Null)
    /\ loader.loading = FALSE =>
          /\ loader.at = "done"
          /\ LoadSucceeded \/ LoadFailed
          /\ ~(LoadSucceeded /\ LoadFailed)
    /\ loader.data # Null =>
          /\ \A u \in Range(loader.urls) : Succeeded(u)
          /\ loader.data = NonNull(WholeCatalog)
          /\ loader.hook # "useFetchData" =>
                DOMAIN loader.data.value = {FieldOf(u) : u \in Range(loader.urls)}
    /\ (loader.at = "done" /\ ~loader.cancelled) => loader.loading = FALSE
    /\ (loader.at = "done" /\ loader.loading = TRUE) => loader.cancelled
    /\ (loader.at = "awaiting" /\ \E u \in Range(loader.urls) : Failed(u)) =>
          loader.all # Pending /\ loader.all.threw

----------------------------------------------------------------------------
(* Unmounting during the fetch *)

\* What the component renders from.
Rendered(l) == <<l.data, l.loading, l.error>>

\* C29: once the cleanup of the effect has set cancelled, no step applies a
\* state update: data, loading and error stay what they were at the unmount,
\* whether the fetch later succeeds or fails.  A loader unmounted while its
\* fetch is in flight therefore stays at loading = true, data = null,
\* error = null.  This holds for useFetchData, useGameData and
\* GameDataProvider.
C29_NoUpdateAfterUnmount ==
    /\ [][loader.cancelled => Rendered(loader') = Rendered(loader)]_vars
    /\ []((loader.cancelled /\ loader.loading = TRUE) =>
             (loader.data = Null /\ loader.error = Null))

\* useGameData was unmounted while its requests were in flight; all five
\* then delivered a body, the one of the items file not a list of items, so
\* normalizeItems threw inside the try and the catch block ran: nothing was
\* updated.
C29_Witness ==
    /\ loader.hook = "useGameData"
    /\ loader.cancelled
    /\ loader.at = "done"
    /\ loader.all # Pending
    /\ ~loader.all.threw
    /\ TryBlock(loader).threw
    /\ loader.loading = TRUE
    /\ loader.data = Null
    /\ loader.error = Null


----------------------------------------------------------------------------
(* fetchWithRetry of the data-fetch script *)

DEFAULT_TIMEOUT == 10000
MAX_RETRIES == 3
RETRY_DELAY_BASE == 1000

\* Math.pow(base, exponent) for a natural exponent.
RECURSIVE Power(_, _)
Power(base, exponent) == IF exponent = 0 THEN 1 ELSE base * Power(base, exponent - 1)

\* Messages are sequences of characters, as the regular expression reads them.
\* The decimal numeral of a natural number, as characters.
RECURSIVE DecimalChars(_)
DecimalChars(n) ==
    IF n < 10
    THEN <<DigitChars[n + 1]>>
    ELSE DecimalChars(n \div 10) \o <<DigitChars[(n % 10) + 1]>>

\* The literal texts of the messages.
HTTP_ == <<"H", "T", "T", "P", " ">>
REQUEST_TIMEOUT_AFTER == <<"R", "e", "q", "u", "e", "s", "t", " ", "t", "i", "m", "e", "o", "u", "t", " ", "a", "f", "t", "e", "r", " ">>
OK_ == <<"O", "K">>
MOVED_PERMANENTLY == <<"M", "o", "v", "e", "d", " ", "P", "e", "r", "m", "a", "n", "e", "n", "t", "l", "y">>
NOT_FOUND == <<"N", "o", "t", " ", "F", "o", "u", "n", "d">>
TOO_MANY_REQUESTS == <<"T", "o", "o", " ", "M", "a", "n", "y", " ", "R", "e", "q", "u", "e", "s", "t", "s">>
INTERNAL_SERVER_ERROR == <<"I", "n", "t", "e", "r", "n", "a", "l", " ", "S", "e", "r", "v", "e", "r", " ", "E", "r", "r", "o", "r">>
UPSTREAM_HTTP_404 == <<"B", "a", "d", " ", "G", "a", "t", "e", "w", "a", "y", ":", " ", "u", "p", "s", "t", "r", "e", "a", "m", " ", "s", "a", "i", "d", " ", "H", "T", "T", "P", " ", "4", "0", "4">>
SOCKET_HANG_UP == <<"s", "o", "c", "k", "e", "t", " ", "h", "a", "n", "g", " ", "u", "p">>

\* What the server or the network does with one request: a response with a
\* status line and a body, an 'error' event of the request, or silence until
\* the timeout.
HttpResponse(statusCode, statusMessage, body) ==
    [event |-> "response", statusCode |-> statusCode, statusMessage |-> statusMessage,
     body |-> body]
RequestError(message) == [event |-> "error", message |-> message]
Silence == [event |-> "timeout"]

\* httpsGet(url): the promise it returns, settled.
httpsGet(url, outcome) ==
    CASE outcome.event = "response" ->
            IF outcome.statusCode < 200 \/ outcome.statusCode >= 300
            THEN Threw([message |-> HTTP_ \o DecimalChars(outcome.statusCode)
                                       \o <<":", " ">> \o outcome.statusMessage])
            ELSE Ok(outcome.body)
      [] outcome.event = "error" -> Threw([message |-> outcome.message])
      [] outcome.event = "timeout" ->
            Threw([message |-> REQUEST_TIMEOUT_AFTER \o DecimalChars(DEFAULT_TIMEOUT)
                                  \o <<"m", "s">>])

\* error.message.match(/HTTP 4\d\d/)
MatchesHttp4xx(message) ==
    \E i \in 1 .. Len(message) - 7 :
        /\ SubSeq(message, i, i + 4) = HTTP_
        /\ message[i + 5] = "4"
        /\ message[i + 6] \in Range(DigitChars)
        /\ message[i + 7] \in Range(DigitChars)

\* A backoff that grows by the base delay each time.
RetryDelay_Linear(retries) == RETRY_DELAY_BASE * (MAX_RETRIES - retries + 1)

\* RETRY_DELAY_BASE * Math.pow(2, MAX_RETRIES - retries)
RetryDelay(retries) == RETRY_DELAY_BASE * Power(2, MAX_RETRIES - retries)

\* fetchWithRetry(url, retries) called: its first request is out.
CallFetchWithRetry(url, retries) ==
    [url |-> url, retries |-> retries, at |-> "requesting",
     attempts |-> << >>, waits |-> << >>, result |-> Pending]

RetryFrame ==
    UNCHANGED <<gameData, progress, reqTotal, reqCompleted, total, completed, remaining,
                op, ret, previous, lastDeps, localStorage, progressRef, kept, loader, callVars>>

\* The request of the current invocation settles and the invocation runs on:
\* it returns the body, rethrows, or starts to sleep before a retry.
RequestSettles(outcome) ==
    /\ request.at = "requesting"
    /\ LET settled == httpsGet(request.url, outcome)
           attempted == [request EXCEPT !.attempts = Append(@, outcome)]
       IN  request' =
              IF ~settled.threw
              THEN [attempted EXCEPT !.at = "returned", !.result = settled]
              ELSE IF MatchesHttp4xx(settled.value.message)
                   THEN [attempted EXCEPT !.at = "threw", !.result = settled]
                   ELSE IF request.retries > 0
                        THEN [attempted EXCEPT !.at = "sleeping",
                                               !.waits = Append(@, RetryDelay(request.retries))]
                        ELSE [attempted EXCEPT !.at = "threw", !.result = settled]
    /\ RetryFrame

\* The sleep is over: return fetchWithRetry(url, retries - 1).
SleepEnds ==
    /\ request.at = "sleeping"
    /\ request' = [request EXCEPT !.retries = @ - 1, !.at = "requesting"]
    /\ RetryFrame

\* The explored answers: two bodies, a redirect, client errors, server
\* errors (one whose status message quotes a client error), a connection
\* error and a timeout.
RequestOutcomes ==
    {HttpResponse(200, OK_, "page 1"), HttpResponse(200, OK_, "page 2"),
     HttpResponse(301, MOVED_PERMANENTLY, ""),
     HttpResponse(404, NOT_FOUND, ""),
     HttpResponse(429, TOO_MANY_REQUESTS, ""),
     HttpResponse(500, INTERNAL_SERVER_ERROR, ""),
     HttpResponse(502, UPSTREAM_HTTP_404, ""),
     RequestError(SOCKET_HANG_UP),
     Silence}

InitRetry ==
    /\ request = CallFetchWithRetry("https://metaforge.app/api/arc-raiders/items?limit=50&page=1",
                                    MAX_RETRIES)
    /\ gameData = Null
    /\ progress = initialState
    /\ reqTotal = EmptyMap /\ reqCompleted = EmptyMap
    /\ total = Null /\ completed = Null /\ remaining = Null
    /\ op = NotApplied
    /\ ret = Ok(EmptyMap)
    /\ previous = Null /\ lastDeps = Null /\ localStorage = Null /\ progressRef = 0 /\ kept = Null /\ loader = Null
    /\ pc = "idle" /\ building = EmptyMap /\ todo = {}

NextRetry ==
    \/ \E outcome \in RequestOutcomes : RequestSettles(outcome)
    \/ SleepEnds

\* Every request settles (response, error or timeout) and every sleep ends.
SpecRetry == InitRetry /\ [][NextRetry]_vars /\ WF_request(NextRetry)


----------------------------------------------------------------------------
(* Attempts, waits and outcome of fetchWithRetry *)

\* Attempt i delivered a body.
AttemptSucceeded(i) ==
    /\ request.attempts[i].event = "response"
    /\ request.attempts[i].statusCode >= 200
    /\ request.attempts[i].statusCode <= 299

\* Attempt i failed with an HTTP 4xx status.
AttemptClientError(i) ==
    /\ request.attempts[i].event = "response"
    /\ request.attempts[i].statusCode >= 400
    /\ request.attempts[i].statusCode <= 499

\* Attempt i failed and its error message holds no "HTTP 4dd".
AttemptRetryable(i) ==
    /\ ~AttemptSucceeded(i)
    /\ ~MatchesHttp4xx(httpsGet(request.url, request.attempts[i]).value.message)

FetchWithRetryEnded == request.at \in {"returned", "threw"}

\* C30: fetchWithRetry(url) makes at most MAX_RETRIES + 1 = 4 requests and
\* always ends.  It returns the body of the first attempt that succeeds.  An
\* attempt is retried only if it failed, not with an HTTP 4xx status, and
\* fewer than 4 attempts were made; before the 2nd, 3rd and 4th attempt it
\* waited 1000, 2000 and 4000 ms.  A failure with an HTTP 4xx status is
\* rethrown at once, and the failure of the 4th attempt is rethrown; a
\* failure whose message holds no "HTTP 4dd" is retried while attempts remain.
C30_BoundedRetriesThenOutcome ==
    /\ [](/\ Len(request.attempts) <= MAX_RETRIES + 1
          /\ Len(request.attempts) <= 4
          /\ \A i \in 1 .. Len(request.attempts) - 1 :
                ~AttemptSucceeded(i) /\ ~AttemptClientError(i)
          /\ request.waits =
                SubSeq(<<1000, 2000, 4000>>, 1,
                       IF FetchWithRetryEnded
                       THEN Len(request.attempts) - 1
                       ELSE Len(request.attempts))
          /\ request.retries = MAX_RETRIES - Len(request.waits)
                                  + (IF request.at = "sleeping" THEN 1 ELSE 0)
          /\ request.at = "returned" =>
                /\ AttemptSucceeded(Len(request.attempts))
                /\ request.result = Ok(request.attempts[Len(request.attempts)].body)
          /\ request.at = "threw" =>
                /\ ~AttemptSucceeded(Len(request.attempts))
                /\ request.result = httpsGet(request.url,
                                             request.attempts[Len(request.attempts)])
                /\ \/ Len(request.attempts) = MAX_RETRIES + 1
                   \/ ~AttemptRetryable(Len(request.attempts))
          /\ \A i \in 1 .. Len(request.attempts) :
                /\ AttemptSucceeded(i) => request.at = "returned"
                /\ AttemptClientError(i) => request.at = "threw"
                /\ (AttemptRetryable(i) /\ i <= MAX_RETRIES /\ i = Len(request.attempts)) =>
                      ~FetchWithRetryEnded)
    /\ <>FetchWithRetryEnded

\* Three attempts failed with a redirect, a server error and a timeout, the
\* waits were 1000, 2000 and 4000 ms, and the fourth attempt returned its body.
C30_Witness ==
    /\ request.at = "returned"
    /\ Len(request.attempts) = 4
    /\ request.attempts[1].event = "response" /\ request.attempts[1].statusCode = 301
    /\ request.attempts[2].event = "response" /\ request.attempts[2].statusCode = 500
    /\ request.attempts[3].event = "timeout"
    /\ request.waits = <<1000, 2000, 4000>>
    /\ request.result = Ok("page 2")

====
